---- MODULE Spec2Model ----
(***************************************************************************)
(* Verification model of the URL security scanner's detection engine:      *)
(* the orchestrator scanUrl and the detectors checkExposedFiles,           *)
(* checkAdminPaths, checkApiKeys, checkDnsSecurity and                     *)
(* checkSubdomainTakeovers.                                                *)
(*                                                                         *)
(* Text is modelled as a sequence of one-character strings, so that        *)
(* substring(), includes(), startsWith() and the regular expressions of    *)
(* the source are computed on characters.                                  *)
(*                                                                         *)
(* Every detector has its own state variable and its own specification     *)
(* (SpecDns, SpecKeys, ...); in a detector's specification the other       *)
(* variables keep their idle value.                                        *)
(***************************************************************************)
EXTENDS Integers, Sequences, FiniteSets, TLC

VARIABLES
    dns,        \* checkDnsSecurity: position, issues, details, what the resolver answered
    keys,       \* checkApiKeys: position, found keys, issues, regex lastIndex
    probe,      \* checkExposedFiles / checkAdminPaths: batches, results, issues, details
    tko,        \* checkSubdomainTakeovers: candidates, batches, results, issues
    scan,       \* scanUrl: baseline, checks, the parallel detectors' promises
    net,        \* one network call: its site, its timer, how far the peer has answered
    fcall       \* one call of checkSSL, isSpaFallback, calculateScore or main: arguments, position, result

vars == <<dns, keys, probe, tko, scan, net, fcall>>

Idle == [pc |-> "idle"]

-----------------------------------------------------------------------------
(* Text helpers (JavaScript String methods on character sequences)         *)

Upper == <<"A","B","C","D","E","F","G","H","I","J","K","L","M",
           "N","O","P","Q","R","S","T","U","V","W","X","Y","Z">>
Lower == <<"a","b","c","d","e","f","g","h","i","j","k","l","m",
           "n","o","p","q","r","s","t","u","v","w","x","y","z">>

\* String.prototype.toLowerCase on one character
LowerOf == [c \in {Upper[i] : i \in 1..26} |-> Lower[CHOOSE i \in 1..26 : Upper[i] = c]]
LowerChar(c) == IF c \in DOMAIN LowerOf THEN LowerOf[c] ELSE c

\* String.prototype.toLowerCase
ToLowerCase(s) == [i \in 1..Len(s) |-> LowerChar(s[i])]

\* s.substring(from, to) with 0-based, end-exclusive JavaScript indices
Substring(s, from, to) ==
    LET a == IF from < 0 THEN 0 ELSE IF from > Len(s) THEN Len(s) ELSE from
        b == IF to < 0 THEN 0 ELSE IF to > Len(s) THEN Len(s) ELSE to
        lo == IF a < b THEN a ELSE b
        hi == IF a < b THEN b ELSE a
    IN  [i \in 1..(hi - lo) |-> s[lo + i]]

\* does sub occur in s at 0-based position pos
MatchesAt(s, sub, pos) ==
    /\ pos >= 0
    /\ pos + Len(sub) <= Len(s)
    /\ \A k \in 1..Len(sub) : s[pos + k] = sub[k]

\* String.prototype.startsWith
StartsWith(s, prefix) == MatchesAt(s, prefix, 0)

\* String.prototype.endsWith
EndsWith(s, suffix) == MatchesAt(s, suffix, Len(s) - Len(suffix))

\* String.prototype.includes
Includes(s, sub) == \E pos \in 0..Len(s) : MatchesAt(s, sub, pos)

\* concatenation of a sequence of texts (Array.prototype.join(''))
RECURSIVE Join(_)
Join(parts) == IF parts = <<>> THEN <<>> ELSE Head(parts) \o Join(Tail(parts))

\* sequences over S of length at most n
SeqsUpTo(S, n) == UNION {[1..k -> S] : k \in 0..n}

-----------------------------------------------------------------------------
(* checkDnsSecurity                                                        *)

\* number of mechanisms (SPF) or tags (DMARC) after the version tag of a TXT record
MaxTerms == 1

SpfVersion   == <<"v","=","s","p","f","1">>
SpfVersionUc == <<"V","=","S","P","F","1">>
DmarcVersion == <<"v","=","D","M","A","R","C","1">>
OtherTxt     == <<"g","=","1">>

\* SPF mechanisms that are not the trailing "all"; the second names a host x-all.y
SpfMechanisms == { <<" ","m","x">>, <<" ","a",":","x","-","a","l","l",".","y">> }
\* the trailing qualifier + "all", or none
SpfTrailers == { <<>>, <<" ","-","a","l","l">>, <<" ","~","a","l","l">>,
                 <<" ","?","a","l","l">>, <<" ","+","a","l","l">> }

DmarcTags == { <<";"," ","p","=","n","o","n","e">>,
               <<";"," ","p","=","r","e","j","e","c","t">>,
               <<";"," ","p","=","q","u","a","r","a","n","t","i","n","e">>,
               <<";"," ","s","p","=","n","o","n","e">> }

\* TXT records of the domain, each the chunks the resolver returns for it
SpfTxtRecords ==
    { <<h>> \o ms \o <<t>> :
        h \in {SpfVersion, SpfVersionUc, OtherTxt},
        ms \in SeqsUpTo(SpfMechanisms, MaxTerms),
        t \in SpfTrailers }

DmarcTxtRecords ==
    { <<h>> \o ts : h \in {DmarcVersion, OtherTxt}, ts \in SeqsUpTo(DmarcTags, MaxTerms) }

\* what resolveTxt can give: a rejection, or a list of records
TxtAnswers(records) ==
    {[ok |-> FALSE, records |-> <<>>], [ok |-> TRUE, records |-> <<>>]}
    \cup {[ok |-> TRUE, records |-> <<r>>] : r \in records}
    \cup {[ok |-> TRUE, records |-> <<<<OtherTxt>>, r>>] : r \in records}
    \cup {[ok |-> TRUE, records |-> <<r, <<OtherTxt>>>>] : r \in records}

\* flatRecords.find(r => r.toLowerCase().startsWith(prefix)); <<>> when none (undefined)
FindRecord(txtRecords, prefix) ==
    LET flatRecords == [i \in 1..Len(txtRecords) |-> Join(txtRecords[i])]
        hits == {i \in 1..Len(flatRecords) : StartsWith(ToLowerCase(flatRecords[i]), prefix)}
    IN  IF hits = {} THEN <<>>
        ELSE flatRecords[CHOOSE i \in hits : \A j \in hits : i <= j]

parseSpfPolicy(record) ==
    IF Includes(record, <<"-","a","l","l">>) THEN "fail"
    ELSE IF Includes(record, <<"~","a","l","l">>) THEN "softfail"
    ELSE IF Includes(record, <<"?","a","l","l">>) THEN "neutral"
    ELSE IF Includes(record, <<"+","a","l","l">>) THEN "pass"
    ELSE "null"

\* record.match(/p=(none|quarantine|reject)/i): the leftmost match decides
parseDmarcPolicy(record) ==
    LET low == ToLowerCase(record)
        alt(pos) ==
            IF MatchesAt(low, <<"p","=","n","o","n","e">>, pos) THEN "none"
            ELSE IF MatchesAt(low, <<"p","=","q","u","a","r","a","n","t","i","n","e">>, pos)
                 THEN "quarantine"
            ELSE IF MatchesAt(low, <<"p","=","r","e","j","e","c","t">>, pos) THEN "reject"
            ELSE "null"
        hits == {pos \in 0..Len(low) : alt(pos) # "null"}
    IN  IF hits = {} THEN "null"
        ELSE alt(CHOOSE pos \in hits : \A q \in hits : pos <= q)

NoSpfIssue == [id |-> "dns-no-spf", severity |-> "medium", title |-> "No SPF record found"]
SpfPermissiveIssue ==
    [id |-> "dns-spf-permissive", severity |-> "high",
     title |-> "SPF policy is too permissive (+all)"]
NoDmarcIssue == [id |-> "dns-no-dmarc", severity |-> "medium", title |-> "No DMARC record found"]
DmarcNoneIssue ==
    [id |-> "dns-dmarc-none", severity |-> "low", title |-> "DMARC policy is set to \"none\""]

NoRecord == [exists |-> FALSE, record |-> <<>>, policy |-> "null"]

\* the state when checkDnsSecurity awaits its first lookup (resolveMx)
DnsStart ==
    [pc |-> "mx",
     issues |-> <<>>,
     details |-> [spf |-> NoRecord, dmarc |-> NoRecord, hasMxRecords |-> FALSE],
     lookup |-> [spf |-> "pending", dmarc |-> "pending"]]

\* what the resolver answered, for the properties: "error" (the lookup rejected),
\* "absent" (it resolved without a record starting with the prefix) or "present"
AnswerKind(answer, prefix) ==
    IF ~answer.ok THEN "error"
    ELSE IF \E i \in 1..Len(answer.records) :
              StartsWith(ToLowerCase(Join(answer.records[i])), prefix)
         THEN "present"
         ELSE "absent"

\* try { mxRecords = await resolveMx(domain) ... } catch { hasMxRecords = false }
DnsMxSettled(d, ok, count) ==
    [d EXCEPT !.pc = "spf", !.details.hasMxRecords = (ok /\ count > 0)]

\* the try block of the SPF check, after resolveTxt(domain) resolved
SpfResolved(d, txtRecords) ==
    LET spfRecord == FindRecord(txtRecords, SpfVersion)
        policy == parseSpfPolicy(spfRecord)
    IN  IF spfRecord # <<>>
        THEN [d EXCEPT !.details.spf = [exists |-> TRUE, record |-> spfRecord, policy |-> policy],
                       !.issues = IF policy = "pass" THEN Append(@, SpfPermissiveIssue) ELSE @]
        ELSE [d EXCEPT !.details.spf.exists = FALSE,
                       !.issues = Append(@, NoSpfIssue)]

\* a mutant of SpfLookupFailed: the catch block reports nothing
SpfLookupFailedSilent(d) == d

\* the catch block of the SPF check: resolveTxt(domain) rejected
SpfLookupFailed(d) == [d EXCEPT !.issues = Append(@, NoSpfIssue)]

\* the try block of the DMARC check, after resolveTxt(`_dmarc.${domain}`) resolved
DmarcResolved(d, dmarcRecords) ==
    LET dmarcRecord == FindRecord(dmarcRecords, <<"v","=","d","m","a","r","c","1">>)
        policy == parseDmarcPolicy(dmarcRecord)
    IN  IF dmarcRecord # <<>>
        THEN [d EXCEPT !.details.dmarc =
                           [exists |-> TRUE, record |-> dmarcRecord, policy |-> policy],
                       !.issues = IF policy = "none" THEN Append(@, DmarcNoneIssue) ELSE @]
        ELSE [d EXCEPT !.details.dmarc.exists = FALSE,
                       !.issues = Append(@, NoDmarcIssue)]

\* the catch block of the DMARC check
DmarcLookupFailed(d) == [d EXCEPT !.issues = Append(@, NoDmarcIssue)]

DnsMxSettle ==
    /\ dns.pc = "mx"
    /\ \E ok \in BOOLEAN, count \in 0..1 : dns' = DnsMxSettled(dns, ok, count)
    /\ UNCHANGED <<keys, probe, tko, scan, net, fcall>>

DnsSpfSettle ==
    /\ dns.pc = "spf"
    /\ \E answer \in TxtAnswers(SpfTxtRecords) :
         LET d == IF answer.ok THEN SpfResolved(dns, answer.records) ELSE SpfLookupFailed(dns)
         IN  dns' = [d EXCEPT !.pc = "dmarc",
                              !.lookup.spf = AnswerKind(answer, SpfVersion)]
    /\ UNCHANGED <<keys, probe, tko, scan, net, fcall>>

\* the DMARC lookup settles and checkDnsSecurity returns
DnsDmarcSettle ==
    /\ dns.pc = "dmarc"
    /\ \E answer \in TxtAnswers(DmarcTxtRecords) :
         LET d == IF answer.ok THEN DmarcResolved(dns, answer.records)
                  ELSE DmarcLookupFailed(dns)
         IN  dns' = [d EXCEPT !.pc = "done",
                              !.lookup.dmarc =
                                  AnswerKind(answer, <<"v","=","d","m","a","r","c","1">>)]
    /\ UNCHANGED <<keys, probe, tko, scan, net, fcall>>

InitDns ==
    /\ dns = DnsStart
    /\ keys = Idle /\ probe = Idle /\ tko = Idle /\ scan = Idle /\ net = Idle /\ fcall = Idle

NextDns == DnsMxSettle \/ DnsSpfSettle \/ DnsDmarcSettle

SpecDns == InitDns /\ [][NextDns]_vars

\* the issues of a CheckResult with a given id
IssuesWithId(issues, id) == {i \in 1..Len(issues) : issues[i].id = id}

\* the outcome the claim of C8 compares: the findings about one record kind and its details
AbsentOutcome(d, kind, issue, weakId) ==
    /\ Cardinality(IssuesWithId(d.issues, issue.id)) = 1
    /\ \A i \in IssuesWithId(d.issues, issue.id) : d.issues[i] = issue
    /\ IssuesWithId(d.issues, weakId) = {}
    /\ d.details[kind] = NoRecord

C9_PermissiveSpfReported ==
    ( /\ dns.pc \in {"dmarc", "done"}
      /\ StartsWith(dns.details.spf.record, SpfVersion)
      /\ EndsWith(dns.details.spf.record, <<" ","+","a","l","l">>) )
    => ( /\ \E i \in 1..Len(dns.issues) : dns.issues[i] = SpfPermissiveIssue
         /\ IssuesWithId(dns.issues, "dns-no-spf") = {}
         /\ dns.details.spf.exists )

-----------------------------------------------------------------------------
(* checkSubdomainTakeovers                                                 *)

\* number of candidate subdomains handed to checkSubdomainTakeovers
MaxCands == 4

\* batch size of checkSubdomainTakeovers
TakeoverConcurrency == 3

\* default of the parameter maxChecks
DefaultMaxChecks == 10

VULNERABLE_SERVICES == <<
    [name |-> "AWS S3", severity |-> "critical",
     before |-> <<".","s","3">>, suffix |-> <<".","a","m","a","z","o","n","a","w","s",".","c","o","m">>,
     fingerprints |-> <<<<"N","o","S","u","c","h","B","u","c","k","e","t">>,
                       <<"T","h","e"," ","s","p","e","c","i","f","i","e","d"," ","b","u","c","k","e","t"," ","d","o","e","s"," ","n","o","t"," ","e","x","i","s","t">>>>],
    [name |-> "GitHub Pages", severity |-> "critical",
     before |-> <<>>, suffix |-> <<".","g","i","t","h","u","b",".","i","o">>,
     fingerprints |-> <<<<"T","h","e","r","e"," ","i","s","n","'","t"," ","a"," ","G","i","t","H","u","b"," ","P","a","g","e","s"," ","s","i","t","e"," ","h","e","r","e">>,
                       <<"F","o","r"," ","r","o","o","t"," ","U","R","L","s">>>>],
    [name |-> "Heroku", severity |-> "critical",
     before |-> <<>>, suffix |-> <<".","h","e","r","o","k","u","a","p","p",".","c","o","m">>,
     fingerprints |-> <<<<"N","o"," ","s","u","c","h"," ","a","p","p">>,
                       <<"h","e","r","o","k","u","c","d","n",".","c","o","m","/","e","r","r","o","r","-","p","a","g","e","s","/","n","o","-","s","u","c","h","-","a","p","p">>>>],
    [name |-> "Azure", severity |-> "critical",
     before |-> <<>>, suffix |-> <<".","a","z","u","r","e","w","e","b","s","i","t","e","s",".","n","e","t">>,
     fingerprints |-> <<<<"4","0","4"," ","W","e","b"," ","S","i","t","e"," ","n","o","t"," ","f","o","u","n","d">>,
                       <<"M","i","c","r","o","s","o","f","t"," ","A","z","u","r","e"," ","A","p","p"," ","S","e","r","v","i","c","e">>>>],
    [name |-> "Netlify", severity |-> "high",
     before |-> <<>>, suffix |-> <<".","n","e","t","l","i","f","y",".","a","p","p">>,
     fingerprints |-> <<<<"N","o","t"," ","F","o","u","n","d"," ","-"," ","R","e","q","u","e","s","t"," ","I","D">>>>],
    [name |-> "Vercel", severity |-> "high",
     before |-> <<>>, suffix |-> <<".","v","e","r","c","e","l",".","a","p","p">>,
     fingerprints |-> <<<<"T","h","e"," ","d","e","p","l","o","y","m","e","n","t"," ","y","o","u"," ","a","r","e"," ","t","r","y","i","n","g"," ","t","o"," ","a","c","c","e","s","s">>>>],
    [name |-> "Cloudfront", severity |-> "high",
     before |-> <<>>, suffix |-> <<".","c","l","o","u","d","f","r","o","n","t",".","n","e","t">>,
     fingerprints |-> <<<<"T","h","e"," ","r","e","q","u","e","s","t"," ","c","o","u","l","d"," ","n","o","t"," ","b","e"," ","s","a","t","i","s","f","i","e","d">>,
                       <<"E","R","R","O","R",":"," ","T","h","e"," ","r","e","q","u","e","s","t"," ","c","o","u","l","d"," ","n","o","t"," ","b","e"," ","s","a","t","i","s","f","i","e","d">>>>],
    [name |-> "Fastly", severity |-> "high",
     before |-> <<>>, suffix |-> <<".","f","a","s","t","l","y",".","n","e","t">>,
     fingerprints |-> <<<<"F","a","s","t","l","y"," ","e","r","r","o","r",":"," ","u","n","k","n","o","w","n"," ","d","o","m","a","i","n">>>>],
    [name |-> "Pantheon", severity |-> "high",
     before |-> <<>>, suffix |-> <<".","p","a","n","t","h","e","o","n","s","i","t","e",".","i","o">>,
     fingerprints |-> <<<<"T","h","e"," ","g","o","d","s"," ","a","r","e"," ","w","i","s","e">>,
                       <<"4","0","4"," ","e","r","r","o","r"," ","u","n","k","n","o","w","n"," ","s","i","t","e">>>>],
    [name |-> "Tumblr", severity |-> "high",
     before |-> <<>>, suffix |-> <<".","t","u","m","b","l","r",".","c","o","m">>,
     fingerprints |-> <<<<"T","h","e","r","e","'","s"," ","n","o","t","h","i","n","g"," ","h","e","r","e">>,
                       <<"W","h","a","t","e","v","e","r"," ","y","o","u"," ","w","e","r","e"," ","l","o","o","k","i","n","g"," ","f","o","r"," ","d","o","e","s","n","'","t"," ","c","u","r","r","e","n","t","l","y"," ","e","x","i","s","t">>>>],
    [name |-> "Shopify", severity |-> "high",
     before |-> <<>>, suffix |-> <<".","m","y","s","h","o","p","i","f","y",".","c","o","m">>,
     fingerprints |-> <<<<"S","o","r","r","y",","," ","t","h","i","s"," ","s","h","o","p"," ","i","s"," ","c","u","r","r","e","n","t","l","y"," ","u","n","a","v","a","i","l","a","b","l","e">>>>],
    [name |-> "Surge.sh", severity |-> "high",
     before |-> <<>>, suffix |-> <<".","s","u","r","g","e",".","s","h">>,
     fingerprints |-> <<<<"p","r","o","j","e","c","t"," ","n","o","t"," ","f","o","u","n","d">>>>],
    [name |-> "UserVoice", severity |-> "high",
     before |-> <<>>, suffix |-> <<".","u","s","e","r","v","o","i","c","e",".","c","o","m">>,
     fingerprints |-> <<<<"T","h","i","s"," ","U","s","e","r","V","o","i","c","e"," ","s","u","b","d","o","m","a","i","n"," ","i","s"," ","c","u","r","r","e","n","t","l","y"," ","a","v","a","i","l","a","b","l","e">>>>],
    [name |-> "Ghost", severity |-> "high",
     before |-> <<>>, suffix |-> <<".","g","h","o","s","t",".","i","o">>,
     fingerprints |-> <<<<"T","h","e"," ","t","h","i","n","g"," ","y","o","u"," ","w","e","r","e"," ","l","o","o","k","i","n","g"," ","f","o","r"," ","i","s"," ","n","o"," ","l","o","n","g","e","r"," ","h","e","r","e">>>>],
    [name |-> "Cargo", severity |-> "high",
     before |-> <<>>, suffix |-> <<".","c","a","r","g","o",".","s","i","t","e">>,
     fingerprints |-> <<<<"<","t","i","t","l","e",">","4","0","4"," ","U+2014"," ","F","i","l","e"," ","n","o","t"," ","f","o","u","n","d","<","/","t","i","t","l","e",">">>>>],
    [name |-> "Fly.io", severity |-> "high",
     before |-> <<>>, suffix |-> <<".","f","l","y",".","d","e","v">>,
     fingerprints |-> <<<<"C","o","u","l","d"," ","n","o","t"," ","r","e","s","o","l","v","e"," ","h","o","s","t">>>>],
    [name |-> "Railway", severity |-> "high",
     before |-> <<>>, suffix |-> <<".","r","a","i","l","w","a","y",".","a","p","p">>,
     fingerprints |-> <<<<"A","p","p","l","i","c","a","t","i","o","n"," ","n","o","t"," ","f","o","u","n","d">>>>],
    [name |-> "Render", severity |-> "high",
     before |-> <<>>, suffix |-> <<".","o","n","r","e","n","d","e","r",".","c","o","m">>,
     fingerprints |-> <<<<"N","o","t"," ","F","o","u","n","d">>>>]
>>

Digits == <<"1","2","3","4","5","6","7","8","9">>

\* the i-th candidate of the list (the caller builds the list from a Set: no duplicates)
Subdomain(i) == <<"s", Digits[i]>> \o <<".","t",".","i","o">>

\* what resolveCname can give: a rejection, or a list of names
CnameAnswers ==
    { [ok |-> FALSE, cnames |-> <<>>],
      [ok |-> TRUE, cnames |-> <<>>],
      [ok |-> TRUE, cnames |-> << <<"X",".","G","i","t","H","u","b",".","i","o">> >>],
      [ok |-> TRUE, cnames |-> << <<"a",".","n","e","t","l","i","f","y",".","a","p","p">> >>],
      [ok |-> TRUE, cnames |->
          << <<"b",".","s","3",".","a","m","a","z","o","n","a","w","s",".","c","o","m">> >>],
      [ok |-> TRUE, cnames |->
          << <<"b",".","s","3","-","w",".","a","m","a","z","o","n","a","w","s",".","c","o","m">>,
             <<"a",".","n","e","t","l","i","f","y",".","a","p","p">> >>] }

\* bodies a probed host can answer with
TakeoverBodies ==
    { <<"o","k">>,
      <<"T","h","e","r","e"," ","i","s","n","'","t"," ","a"," ","G","i","t","H","u","b"," ","P","a","g","e","s"," ","s","i","t","e"," ","h","e","r","e",".">>,
      <<"N","o","t"," ","F","o","u","n","d"," ","-"," ","R","e","q","u","e","s","t"," ","I","D",":"," ","1">>,
      <<"<","C","o","d","e",">","N","o","S","u","c","h","B","u","c","k","e","t","<","/","C","o","d","e",">">> }

\* service.cnamePattern.test(cname): /\.suffix$/i, or /\.s3[.-].*\.amazonaws\.com$/i
CnamePatternTest(service, cname) ==
    LET low == ToLowerCase(cname)
        sufAt == Len(low) - Len(service.suffix)
    IN  /\ EndsWith(low, service.suffix)
        /\ service.before # <<>> =>
             \E pos \in 0..Len(low) :
                /\ MatchesAt(low, service.before, pos)
                /\ pos + Len(service.before) + 1 <= sufAt
                /\ low[pos + Len(service.before) + 1] \in {".", "-"}

\* the first entry of VULNERABLE_SERVICES whose pattern matches, 0 when none does
FirstService(cname) ==
    LET hits == {k \in 1..Len(VULNERABLE_SERVICES) :
                    CnamePatternTest(VULNERABLE_SERVICES[k], cname)}
    IN  IF hits = {} THEN 0 ELSE CHOOSE k \in hits : \A j \in hits : k <= j

\* the loop over fingerprints of checkHttpFingerprint: the first one the body includes
FirstFingerprint(fingerprints, body) ==
    LET hits == {k \in 1..Len(fingerprints) : Includes(body, fingerprints[k])}
    IN  IF hits = {} THEN <<>>
        ELSE fingerprints[CHOOSE k \in hits : \A j \in hits : k <= j]

\* subdomain.replace(/\./g, '-')
ReplaceDots(s) == [i \in 1..Len(s) |-> IF s[i] = "." THEN "-" ELSE s[i]]

NullResult == [found |-> FALSE]

\* the SubdomainTakeoverResult checkSubdomainTakeover returns for a matched service
TakeoverResult(subdomain, cname, k, evidence) ==
    [found |-> TRUE, subdomain |-> subdomain, cname |-> cname,
     service |-> VULNERABLE_SERVICES[k].name,
     vulnerable |-> (evidence # <<>>),
     severity |-> VULNERABLE_SERVICES[k].severity,
     evidence |-> evidence]

TakeoverIssue(result) ==
    [id |-> <<"s","u","b","d","o","m","a","i","n","-","t","a","k","e","o","v","e","r","-">>
              \o ReplaceDots(result.subdomain),
     severity |-> result.severity,
     subdomain |-> result.subdomain]

\* what the claim of C10 expects of a candidate, from what the network answered:
\* the severity of the finding, or "none"
ExpectedFinding(answer, body) ==
    IF ~answer.ok \/ answer.cnames = <<>> THEN "none"
    ELSE LET matching == {k \in 1..Len(VULNERABLE_SERVICES) :
                            CnamePatternTest(VULNERABLE_SERVICES[k], answer.cnames[1])}
             rule == VULNERABLE_SERVICES[CHOOSE k \in matching : \A j \in matching : k <= j]
         IN  IF matching = {} \/ body = <<>> THEN "none"
             ELSE IF \E f \in 1..Len(rule.fingerprints) : Includes(body, rule.fingerprints[f])
                  THEN rule.severity
                  ELSE "none"

\* a candidate of the running batch: checkSubdomainTakeover awaits resolveCname
CandStarted == [pc |-> "cname", service |-> 0, cname |-> <<>>, answer |-> [ok |-> FALSE, cnames |-> <<>>],
                result |-> NullResult, expect |-> "none"]
CandWaiting == [CandStarted EXCEPT !.pc = "waiting"]

Min(a, b) == IF a < b THEN a ELSE b

\* the candidates of the batch that starts at 1-based index from
BatchOf(t, from) == from .. Min(from + TakeoverConcurrency - 1, t.checkedCount)

\* batch.map(subdomain => checkSubdomainTakeover(subdomain)): every lookup of the batch starts
StartBatch(t, from) ==
    [t EXCEPT !.from = from,
              !.cands = [i \in 1..Len(t.cands) |->
                           IF i \in BatchOf(t, from) THEN CandStarted ELSE t.cands[i]]]

\* the loop over batchResults, then the next batch or the return statement
RECURSIVE PushResults(_, _, _)
PushResults(t, i, last) ==
    IF i > last THEN t
    ELSE LET r == t.cands[i].result
             t1 == IF r.found
                   THEN [t EXCEPT !.results = Append(@, r),
                                  !.issues = IF r.vulnerable THEN Append(@, TakeoverIssue(r))
                                             ELSE @]
                   ELSE t
         IN  PushResults(t1, i + 1, last)

\* a mutant of BatchSettled: the findings of a batch are not pushed when it is the last
BatchSettledDropsLast(t) ==
    LET last == Min(t.from + TakeoverConcurrency - 1, t.checkedCount)
    IN  IF last < t.checkedCount
        THEN StartBatch(PushResults(t, t.from, last), last + 1)
        ELSE [t EXCEPT !.pc = "done"]

\* Promise.all of the batch resolved: push its results, start the next batch or return
BatchSettled(t) ==
    LET last == Min(t.from + TakeoverConcurrency - 1, t.checkedCount)
        pushed == PushResults(t, t.from, last)
    IN  IF last < t.checkedCount
        THEN StartBatch(pushed, last + 1)
        ELSE [pushed EXCEPT !.pc = "done"]

\* candidate i settled with result r; the batch continues when it was the last to settle
CandSettled(t, i, r, expect) ==
    LET t1 == [t EXCEPT !.cands[i].pc = "settled", !.cands[i].result = r,
                        !.cands[i].expect = expect]
    IN  IF \A j \in BatchOf(t1, t1.from) : t1.cands[j].pc = "settled"
        THEN BatchSettled(t1)
        ELSE t1

\* checkSubdomainTakeovers(subdomains, maxChecks) up to its first await
TakeoverCall(n, maxChecks) ==
    LET t == [pc |-> "run",
              subdomains |-> [i \in 1..n |-> Subdomain(i)],
              maxChecks |-> maxChecks,
              checkedCount |-> Min(n, maxChecks),
              from |-> 1,
              cands |-> [i \in 1..n |-> CandWaiting],
              results |-> <<>>,
              issues |-> <<>>]
    IN  IF t.checkedCount = 0 THEN [t EXCEPT !.pc = "done"] ELSE StartBatch(t, 1)

\* resolveCname settles: null result, or the HTTPS probe of checkHttpFingerprint starts
CnameSettle(i) ==
    /\ tko.pc = "run" /\ i \in 1..Len(tko.cands)
    /\ tko.cands[i].pc = "cname"
    /\ \E answer \in CnameAnswers :
         LET cname == IF answer.cnames = <<>> THEN <<>> ELSE ToLowerCase(answer.cnames[1])
             k == IF answer.ok /\ answer.cnames # <<>> THEN FirstService(cname) ELSE 0
         IN  tko' = IF k = 0
                    THEN CandSettled(tko, i, NullResult, ExpectedFinding(answer, <<>>))
                    ELSE [tko EXCEPT !.cands[i].pc = "https", !.cands[i].service = k,
                                     !.cands[i].cname = cname, !.cands[i].answer = answer]
    /\ UNCHANGED <<dns, keys, probe, scan, net, fcall>>

\* the response of a probe was read: search it for the service's fingerprints
BodyRead(t, i, body) ==
    LET c == t.cands[i]
        evidence == FirstFingerprint(VULNERABLE_SERVICES[c.service].fingerprints, body)
    IN  CandSettled(t, i, TakeoverResult(t.subdomains[i], c.cname, c.service, evidence),
                    ExpectedFinding(c.answer, body))

\* no protocol gave a response: { vulnerable: false }
NoResponse(t, i) ==
    LET c == t.cands[i]
    IN  CandSettled(t, i, TakeoverResult(t.subdomains[i], c.cname, c.service, <<>>),
                    ExpectedFinding(c.answer, <<>>))

\* the https fetch settles: its body is searched, or the http fetch starts
HttpsSettle(i) ==
    /\ tko.pc = "run" /\ i \in 1..Len(tko.cands)
    /\ tko.cands[i].pc = "https"
    /\ \/ \E body \in TakeoverBodies : tko' = BodyRead(tko, i, body)
       \/ tko' = [tko EXCEPT !.cands[i].pc = "http"]
    /\ UNCHANGED <<dns, keys, probe, scan, net, fcall>>

\* the http fetch settles
HttpSettle(i) ==
    /\ tko.pc = "run" /\ i \in 1..Len(tko.cands)
    /\ tko.cands[i].pc = "http"
    /\ \/ \E body \in TakeoverBodies : tko' = BodyRead(tko, i, body)
       \/ tko' = NoResponse(tko, i)
    /\ UNCHANGED <<dns, keys, probe, scan, net, fcall>>

\* the 5 s timer of checkHttpFingerprint fires: controller.abort() rejects the fetch in
\* flight, and a fetch started afterwards with the aborted signal rejects at once
ProbeTimeout(i) ==
    /\ tko.pc = "run" /\ i \in 1..Len(tko.cands)
    /\ tko.cands[i].pc \in {"https", "http"}
    /\ tko' = NoResponse(tko, i)
    /\ UNCHANGED <<dns, keys, probe, scan, net, fcall>>

InitTakeover ==
    /\ \E n \in 0..MaxCands, maxChecks \in {2, DefaultMaxChecks} : tko = TakeoverCall(n, maxChecks)
    /\ dns = Idle /\ keys = Idle /\ probe = Idle /\ scan = Idle /\ net = Idle /\ fcall = Idle

NextTakeover ==
    \E i \in 1..MaxCands : CnameSettle(i) \/ HttpsSettle(i) \/ HttpSettle(i) \/ ProbeTimeout(i)

SpecTakeover == InitTakeover /\ [][NextTakeover]_vars

\* the findings of the result about candidate i
FindingsFor(t, i) == {f \in 1..Len(t.issues) : t.issues[f].subdomain = t.subdomains[i]}

\* C10: when checkSubdomainTakeovers has returned, every examined candidate whose first
\* CNAME matches a rule has exactly one finding, at the rule's severity, if the fetched
\* body contains one of the rule's fingerprints, and none otherwise; a candidate with no
\* CNAME, with a CNAME matching no rule, or whose lookup or probe failed has none.
C10_TakeoverDecision ==
    tko.pc = "done" =>
        \A i \in 1..tko.checkedCount :
            LET c == tko.cands[i]
            IN  /\ c.pc = "settled"
                /\ IF c.expect = "none"
                   THEN FindingsFor(tko, i) = {}
                   ELSE /\ Cardinality(FindingsFor(tko, i)) = 1
                        /\ \A f \in FindingsFor(tko, i) : tko.issues[f].severity = c.expect

\* witness of C10: two batches ran; one candidate has a finding, one matched a rule
\* without a fingerprint in its body
C10_Witness ==
    /\ tko.pc = "done" /\ tko.checkedCount > TakeoverConcurrency
    /\ \E i, j \in 1..tko.checkedCount :
         /\ FindingsFor(tko, i) # {} /\ tko.cands[i].expect = "high"
         /\ tko.cands[j].result.found /\ ~tko.cands[j].result.vulnerable
         /\ tko.cands[j].expect = "none"

-----------------------------------------------------------------------------
(* checkApiKeys: regular expressions                                       *)

\* runs of checkApiKeys made one after the other in the same process
MaxRuns == 2

\* an open quantifier such as {32,} or +
Unbounded == -1

\* RegExp.prototype.exec returning null, String.prototype.indexOf returning -1
NoMatch == -1

DigitChars == {"0","1","2","3","4","5","6","7","8","9"}
UpperChars == {Upper[i] : i \in 1..26}
LowerChars == {Lower[i] : i \in 1..26}

\* [a-zA-Z0-9]
Alnum == UpperChars \cup LowerChars \cup DigitChars
\* [A-Z0-9]
UpperDigit == UpperChars \cup DigitChars
\* [a-zA-Z0-9-]
AlnumDash == Alnum \cup {"-"}
\* [a-zA-Z0-9_-]
AlnumUnderscoreDash == Alnum \cup {"_", "-"}
\* [a-f0-9]
HexLower == {"a","b","c","d","e","f"} \cup DigitChars
\* \s
Whitespace == {" ", "\t", "\n", "\r"}
\* \s"'
SpaceOrQuote == Whitespace \cup {"\"", "'"}

\* the pieces a pattern is made of: a literal, an optional literal (?:x)?,
\* an alternation (?:a|b), a class [..]{min,max}, a negated class
\* [^..]{min,max} and an assertion (^ or $)
Lit(s) == [kind |-> "lit", alts |-> <<s>>, chars |-> {}, neg |-> FALSE, min |-> 1, max |-> 1]
Opt(s) == [kind |-> "lit", alts |-> <<s, <<>>>>, chars |-> {}, neg |-> FALSE, min |-> 0, max |-> 1]
Alt(a, b) == [kind |-> "lit", alts |-> <<a, b>>, chars |-> {}, neg |-> FALSE, min |-> 1, max |-> 1]
Cls(chars, min, max) == [kind |-> "cls", alts |-> <<>>, chars |-> chars, neg |-> FALSE, min |-> min, max |-> max]
Not(chars, min, max) == [kind |-> "cls", alts |-> <<>>, chars |-> chars, neg |-> TRUE, min |-> min, max |-> max]

InClass(c, item) == IF item.neg THEN c \notin item.chars ELSE c \in item.chars

\* the longest run of characters of the item's class at pos (greedy), at
\* most item.max long
RECURSIVE RunLength(_, _, _, _)
RunLength(s, pos, item, n) ==
    IF /\ pos + n < Len(s)
       /\ (item.max = Unbounded \/ n < item.max)
       /\ InClass(s[pos + n + 1], item)
    THEN RunLength(s, pos, item, n + 1)
    ELSE n

\* what . does not match, and what ^ and $ of a multiline pattern look at
LineTerminators == {"\n", "\r"}

\* an assertion: ^ and $ without the m flag ("start", "end") and with it
\* ("bol", "eol")
Anchor(kind) == [kind |-> kind, alts |-> <<>>, chars |-> {}, neg |-> FALSE, min |-> 0, max |-> 0]

AnchorHolds(kind, s, pos) ==
    CASE kind = "start" -> pos = 0
      [] kind = "end"   -> pos = Len(s)
      [] kind = "bol"   -> pos = 0 \/ s[pos] \in LineTerminators
      [] kind = "eol"   -> pos = Len(s) \/ s[pos + 1] \in LineTerminators

\* the first of two attempts that matches
OrElse(first, second) == IF first # NoMatch THEN first ELSE second

\* backtracking match of the items k.. of a pattern at the 0-based position
\* pos: the 0-based position after the match, or NoMatch
RECURSIVE MatchItems(_, _, _, _)
RECURSIVE TryAlts(_, _, _, _, _)
RECURSIVE TryCounts(_, _, _, _, _)
MatchItems(re, k, s, pos) ==
    IF k > Len(re) THEN pos
    ELSE IF re[k].kind = "lit" THEN TryAlts(re, k, s, pos, 1)
    ELSE IF re[k].kind = "cls" THEN TryCounts(re, k, s, pos, RunLength(s, pos, re[k], 0))
    ELSE IF AnchorHolds(re[k].kind, s, pos) THEN MatchItems(re, k + 1, s, pos)
    ELSE NoMatch

\* the alternatives of a literal item, in order
TryAlts(re, k, s, pos, a) ==
    IF a > Len(re[k].alts) THEN NoMatch
    ELSE OrElse(IF MatchesAt(s, re[k].alts[a], pos)
                THEN MatchItems(re, k + 1, s, pos + Len(re[k].alts[a]))
                ELSE NoMatch,
                TryAlts(re, k, s, pos, a + 1))

\* the repetitions of a class item, the longest first
TryCounts(re, k, s, pos, n) ==
    IF n < re[k].min THEN NoMatch
    ELSE OrElse(MatchItems(re, k + 1, s, pos + n), TryCounts(re, k, s, pos, n - 1))

\* the first position of lo..hi at which the pattern matches, or NoMatch
\* (the two halves of the range are searched in order)
RECURSIVE FirstMatchIn(_, _, _, _)
FirstMatchIn(re, s, lo, hi) ==
    IF lo > hi THEN NoMatch
    ELSE IF lo = hi THEN (IF MatchItems(re, 1, s, lo) # NoMatch THEN lo ELSE NoMatch)
    ELSE OrElse(FirstMatchIn(re, s, lo, (lo + hi) \div 2),
                FirstMatchIn(re, s, (lo + hi) \div 2 + 1, hi))

\* the value of exec for a match found at index
ExecResult(re, s, index) ==
    IF index = NoMatch THEN [index |-> NoMatch, lastIndex |-> 0]
    ELSE [index |-> index, lastIndex |-> MatchItems(re, 1, s, index)]

\* RegExp.prototype.exec of a global pattern: the search starts at
\* lastIndex; a match leaves lastIndex after it, a failure leaves 0
RegExpExec(re, s, lastIndex) == ExecResult(re, s, FirstMatchIn(re, s, lastIndex, Len(s)))

\* s.indexOf(sub, from), -1 when absent
IndexOf(s, sub, from) == FirstMatchIn(<<Lit(sub)>>, s, IF from < 0 THEN 0 ELSE from, Len(s))

API_KEY_PATTERNS == <<
    \* /sk-(?:proj-)?[a-zA-Z0-9]{32,}/g
    [name |-> <<"O","p","e","n","A","I"," ","A","P","I"," ","K","e","y">>,
     service |-> <<"O","p","e","n","A","I">>,
     pattern |-> <<Lit(<<"s","k","-">>),
                   Opt(<<"p","r","o","j","-">>),
                   Cls(Alnum, 32, Unbounded)>>,
     severity |-> "critical",
     description |-> <<"O","p","e","n","A","I"," ","A","P","I"," ","k","e","y"," ","f","o","u","n","d"," ","i","n"," ","J","a","v","a","S","c","r","i","p","t","."," ","A","n","y","o","n","e"," ","c","a","n"," ","u","s","e"," ","y","o","u","r"," ","k","e","y"," ","a","n","d"," ","c","h","a","r","g","e"," ","y","o","u","r"," ","a","c","c","o","u","n","t",".">>,
     fix |-> <<"M","o","v","e"," ","t","h","e"," ","A","P","I"," ","k","e","y"," ","t","o"," ","a"," ","s","e","r","v","e","r","-","s","i","d","e"," ","e","n","v","i","r","o","n","m","e","n","t"," ","v","a","r","i","a","b","l","e","."," ","N","e","v","e","r"," ","e","x","p","o","s","e"," ","O","p","e","n","A","I"," ","k","e","y","s"," ","i","n"," ","f","r","o","n","t","e","n","d"," ","c","o","d","e",".">>,
     confidence |-> "high"],
    \* /sk_live_[a-zA-Z0-9]{24,}/g
    [name |-> <<"S","t","r","i","p","e"," ","S","e","c","r","e","t"," ","K","e","y">>,
     service |-> <<"S","t","r","i","p","e">>,
     pattern |-> <<Lit(<<"s","k","_","l","i","v","e","_">>),
                   Cls(Alnum, 24, Unbounded)>>,
     severity |-> "critical",
     description |-> <<"S","t","r","i","p","e"," ","S","E","C","R","E","T"," ","k","e","y"," ","f","o","u","n","d"," ","(","n","o","t"," ","t","h","e"," ","p","u","b","l","i","s","h","a","b","l","e"," ","k","e","y",")","."," ","T","h","i","s"," ","g","i","v","e","s"," ","f","u","l","l"," ","a","c","c","e","s","s"," ","t","o"," ","y","o","u","r"," ","S","t","r","i","p","e"," ","a","c","c","o","u","n","t",".">>,
     fix |-> <<"M","o","v","e"," ","t","o"," ","s","e","r","v","e","r","-","s","i","d","e"," ","i","m","m","e","d","i","a","t","e","l","y","."," ","O","n","l","y"," ","p","k","_","l","i","v","e","_"," ","k","e","y","s"," ","s","h","o","u","l","d"," ","b","e"," ","i","n"," ","f","r","o","n","t","e","n","d"," ","c","o","d","e",".">>,
     confidence |-> "high"],
    \* /sk_test_[a-zA-Z0-9]{24,}/g
    [name |-> <<"S","t","r","i","p","e"," ","T","e","s","t"," ","S","e","c","r","e","t"," ","K","e","y">>,
     service |-> <<"S","t","r","i","p","e">>,
     pattern |-> <<Lit(<<"s","k","_","t","e","s","t","_">>),
                   Cls(Alnum, 24, Unbounded)>>,
     severity |-> "high",
     description |-> <<"S","t","r","i","p","e"," ","t","e","s","t"," ","s","e","c","r","e","t"," ","k","e","y"," ","f","o","u","n","d","."," ","W","h","i","l","e"," ","t","e","s","t"," ","m","o","d","e",","," ","t","h","i","s"," ","i","n","d","i","c","a","t","e","s"," ","a"," ","p","a","t","t","e","r","n"," ","t","h","a","t"," ","m","a","y"," ","l","e","a","k"," ","p","r","o","d","u","c","t","i","o","n"," ","k","e","y","s",".">>,
     fix |-> <<"M","o","v","e"," ","t","o"," ","s","e","r","v","e","r","-","s","i","d","e"," ","e","n","v","i","r","o","n","m","e","n","t"," ","v","a","r","i","a","b","l","e","s",".">>,
     confidence |-> "high"],
    \* /AKIA[A-Z0-9]{16}/g
    [name |-> <<"A","W","S"," ","A","c","c","e","s","s"," ","K","e","y">>,
     service |-> <<"A","W","S">>,
     pattern |-> <<Lit(<<"A","K","I","A">>),
                   Cls(UpperDigit, 16, 16)>>,
     severity |-> "critical",
     description |-> <<"A","W","S"," ","A","c","c","e","s","s"," ","K","e","y"," ","I","D"," ","f","o","u","n","d","."," ","I","f"," ","t","h","e"," ","s","e","c","r","e","t"," ","k","e","y"," ","i","s"," ","a","l","s","o"," ","e","x","p","o","s","e","d",","," ","a","t","t","a","c","k","e","r","s"," ","c","a","n"," ","a","c","c","e","s","s"," ","y","o","u","r"," ","A","W","S"," ","r","e","s","o","u","r","c","e","s",".">>,
     fix |-> <<"R","o","t","a","t","e"," ","t","h","i","s"," ","k","e","y"," ","i","m","m","e","d","i","a","t","e","l","y"," ","i","n"," ","A","W","S"," ","I","A","M"," ","c","o","n","s","o","l","e","."," ","U","s","e"," ","A","W","S"," ","C","o","g","n","i","t","o"," ","o","r"," ","A","P","I"," ","G","a","t","e","w","a","y"," ","f","o","r"," ","f","r","o","n","t","e","n","d"," ","a","u","t","h",".">>,
     confidence |-> "high"],
    \* /AIza[a-zA-Z0-9_-]{35}/g
    [name |-> <<"G","o","o","g","l","e"," ","A","P","I"," ","K","e","y">>,
     service |-> <<"G","o","o","g","l","e">>,
     pattern |-> <<Lit(<<"A","I","z","a">>),
                   Cls(AlnumUnderscoreDash, 35, 35)>>,
     severity |-> "high",
     description |-> <<"G","o","o","g","l","e"," ","A","P","I"," ","k","e","y"," ","f","o","u","n","d","."," ","D","e","p","e","n","d","i","n","g"," ","o","n"," ","r","e","s","t","r","i","c","t","i","o","n","s",","," ","t","h","i","s"," ","m","a","y"," ","a","l","l","o","w"," ","u","n","a","u","t","h","o","r","i","z","e","d"," ","A","P","I"," ","u","s","a","g","e",".">>,
     fix |-> <<"R","e","s","t","r","i","c","t"," ","t","h","e"," ","A","P","I"," ","k","e","y"," ","i","n"," ","G","o","o","g","l","e"," ","C","l","o","u","d"," ","C","o","n","s","o","l","e"," ","t","o"," ","s","p","e","c","i","f","i","c"," ","d","o","m","a","i","n","s"," ","a","n","d"," ","A","P","I","s",".">>,
     confidence |-> "high"],
    \* /ghp_[a-zA-Z0-9]{36}/g
    [name |-> <<"G","i","t","H","u","b"," ","T","o","k","e","n">>,
     service |-> <<"G","i","t","H","u","b">>,
     pattern |-> <<Lit(<<"g","h","p","_">>),
                   Cls(Alnum, 36, 36)>>,
     severity |-> "critical",
     description |-> <<"G","i","t","H","u","b"," ","P","e","r","s","o","n","a","l"," ","A","c","c","e","s","s"," ","T","o","k","e","n"," ","f","o","u","n","d","."," ","T","h","i","s"," ","p","r","o","v","i","d","e","s"," ","a","c","c","e","s","s"," ","t","o"," ","y","o","u","r"," ","G","i","t","H","u","b"," ","a","c","c","o","u","n","t"," ","a","n","d"," ","r","e","p","o","s","i","t","o","r","i","e","s",".">>,
     fix |-> <<"R","e","v","o","k","e"," ","t","h","i","s"," ","t","o","k","e","n"," ","i","m","m","e","d","i","a","t","e","l","y"," ","a","t"," ","g","i","t","h","u","b",".","c","o","m","/","s","e","t","t","i","n","g","s","/","t","o","k","e","n","s"," ","a","n","d"," ","c","r","e","a","t","e"," ","a"," ","n","e","w"," ","o","n","e"," ","s","t","o","r","e","d"," ","s","e","c","u","r","e","l","y",".">>,
     confidence |-> "high"],
    \* /gho_[a-zA-Z0-9]{36}/g
    [name |-> <<"G","i","t","H","u","b"," ","O","A","u","t","h"," ","T","o","k","e","n">>,
     service |-> <<"G","i","t","H","u","b">>,
     pattern |-> <<Lit(<<"g","h","o","_">>),
                   Cls(Alnum, 36, 36)>>,
     severity |-> "critical",
     description |-> <<"G","i","t","H","u","b"," ","O","A","u","t","h"," ","t","o","k","e","n"," ","f","o","u","n","d",".">>,
     fix |-> <<"R","e","v","o","k","e"," ","t","h","i","s"," ","t","o","k","e","n"," ","a","n","d"," ","i","m","p","l","e","m","e","n","t"," ","p","r","o","p","e","r"," ","O","A","u","t","h"," ","f","l","o","w"," ","s","e","r","v","e","r","-","s","i","d","e",".">>,
     confidence |-> "high"],
    \* /xoxb-[a-zA-Z0-9-]{24,}/g
    [name |-> <<"S","l","a","c","k"," ","B","o","t"," ","T","o","k","e","n">>,
     service |-> <<"S","l","a","c","k">>,
     pattern |-> <<Lit(<<"x","o","x","b","-">>),
                   Cls(AlnumDash, 24, Unbounded)>>,
     severity |-> "critical",
     description |-> <<"S","l","a","c","k"," ","B","o","t"," ","t","o","k","e","n"," ","f","o","u","n","d","."," ","T","h","i","s"," ","a","l","l","o","w","s"," ","s","e","n","d","i","n","g"," ","m","e","s","s","a","g","e","s"," ","a","n","d"," ","a","c","c","e","s","s","i","n","g"," ","w","o","r","k","s","p","a","c","e"," ","d","a","t","a",".">>,
     fix |-> <<"R","o","t","a","t","e"," ","t","h","e"," ","t","o","k","e","n"," ","i","n"," ","S","l","a","c","k"," ","A","P","I"," ","s","e","t","t","i","n","g","s"," ","a","n","d"," ","s","t","o","r","e"," ","s","e","r","v","e","r","-","s","i","d","e",".">>,
     confidence |-> "high"],
    \* /sk-ant-[a-zA-Z0-9-]{32,}/g
    [name |-> <<"A","n","t","h","r","o","p","i","c"," ","A","P","I"," ","K","e","y">>,
     service |-> <<"A","n","t","h","r","o","p","i","c">>,
     pattern |-> <<Lit(<<"s","k","-","a","n","t","-">>),
                   Cls(AlnumDash, 32, Unbounded)>>,
     severity |-> "critical",
     description |-> <<"A","n","t","h","r","o","p","i","c"," ","(","C","l","a","u","d","e",")"," ","A","P","I"," ","k","e","y"," ","f","o","u","n","d","."," ","A","n","y","o","n","e"," ","c","a","n"," ","u","s","e"," ","y","o","u","r"," ","k","e","y"," ","a","n","d"," ","c","h","a","r","g","e"," ","y","o","u","r"," ","a","c","c","o","u","n","t",".">>,
     fix |-> <<"M","o","v","e"," ","t","o"," ","s","e","r","v","e","r","-","s","i","d","e"," ","e","n","v","i","r","o","n","m","e","n","t"," ","v","a","r","i","a","b","l","e"," ","i","m","m","e","d","i","a","t","e","l","y",".">>,
     confidence |-> "high"],
    \* /mongodb\+srv:\/\/[^:]+:[^@]+@[^\s"']+/g
    [name |-> <<"M","o","n","g","o","D","B"," ","C","o","n","n","e","c","t","i","o","n"," ","S","t","r","i","n","g">>,
     service |-> <<"M","o","n","g","o","D","B">>,
     pattern |-> <<Lit(<<"m","o","n","g","o","d","b","+","s","r","v",":","/","/">>),
                   Not({":"}, 1, Unbounded),
                   Lit(<<":">>),
                   Not({"@"}, 1, Unbounded),
                   Lit(<<"@">>),
                   Not(SpaceOrQuote, 1, Unbounded)>>,
     severity |-> "critical",
     description |-> <<"M","o","n","g","o","D","B"," ","c","o","n","n","e","c","t","i","o","n"," ","s","t","r","i","n","g"," ","w","i","t","h"," ","c","r","e","d","e","n","t","i","a","l","s"," ","f","o","u","n","d","."," ","F","u","l","l"," ","d","a","t","a","b","a","s","e"," ","a","c","c","e","s","s"," ","i","s"," ","e","x","p","o","s","e","d",".">>,
     fix |-> <<"N","e","v","e","r"," ","e","x","p","o","s","e"," ","d","a","t","a","b","a","s","e"," ","c","r","e","d","e","n","t","i","a","l","s"," ","i","n"," ","f","r","o","n","t","e","n","d"," ","c","o","d","e","."," ","U","s","e"," ","a"," ","b","a","c","k","e","n","d"," ","A","P","I",".">>,
     confidence |-> "high"],
    \* /postgres(?:ql)?:\/\/[^:]+:[^@]+@[^\s"']+/g
    [name |-> <<"P","o","s","t","g","r","e","S","Q","L"," ","C","o","n","n","e","c","t","i","o","n"," ","S","t","r","i","n","g">>,
     service |-> <<"P","o","s","t","g","r","e","S","Q","L">>,
     pattern |-> <<Lit(<<"p","o","s","t","g","r","e","s">>),
                   Opt(<<"q","l">>),
                   Lit(<<":","/","/">>),
                   Not({":"}, 1, Unbounded),
                   Lit(<<":">>),
                   Not({"@"}, 1, Unbounded),
                   Lit(<<"@">>),
                   Not(SpaceOrQuote, 1, Unbounded)>>,
     severity |-> "critical",
     description |-> <<"P","o","s","t","g","r","e","S","Q","L"," ","c","o","n","n","e","c","t","i","o","n"," ","s","t","r","i","n","g"," ","w","i","t","h"," ","c","r","e","d","e","n","t","i","a","l","s"," ","f","o","u","n","d",".">>,
     fix |-> <<"M","o","v","e"," ","d","a","t","a","b","a","s","e"," ","a","c","c","e","s","s"," ","t","o"," ","b","a","c","k","e","n","d","."," ","F","r","o","n","t","e","n","d"," ","s","h","o","u","l","d"," ","n","e","v","e","r"," ","c","o","n","n","e","c","t"," ","d","i","r","e","c","t","l","y"," ","t","o"," ","d","a","t","a","b","a","s","e","s",".">>,
     confidence |-> "high"],
    \* /"private_key":\s*"-----BEGIN (?:RSA )?PRIVATE KEY-----/g
    [name |-> <<"F","i","r","e","b","a","s","e"," ","P","r","i","v","a","t","e"," ","K","e","y">>,
     service |-> <<"F","i","r","e","b","a","s","e">>,
     pattern |-> <<Lit(<<"\"","p","r","i","v","a","t","e","_","k","e","y","\"",":">>),
                   Cls(Whitespace, 0, Unbounded),
                   Lit(<<"\"","-","-","-","-","-","B","E","G","I","N"," ">>),
                   Opt(<<"R","S","A"," ">>),
                   Lit(<<"P","R","I","V","A","T","E"," ","K","E","Y","-","-","-","-","-">>)>>,
     severity |-> "critical",
     description |-> <<"F","i","r","e","b","a","s","e"," ","A","d","m","i","n"," ","S","D","K"," ","p","r","i","v","a","t","e"," ","k","e","y"," ","f","o","u","n","d","."," ","T","h","i","s"," ","p","r","o","v","i","d","e","s"," ","f","u","l","l"," ","a","d","m","i","n"," ","a","c","c","e","s","s"," ","t","o"," ","y","o","u","r"," ","F","i","r","e","b","a","s","e"," ","p","r","o","j","e","c","t",".">>,
     fix |-> <<"N","e","v","e","r"," ","e","x","p","o","s","e"," ","s","e","r","v","i","c","e"," ","a","c","c","o","u","n","t"," ","k","e","y","s"," ","i","n"," ","f","r","o","n","t","e","n","d","."," ","U","s","e"," ","F","i","r","e","b","a","s","e"," ","c","l","i","e","n","t"," ","S","D","K"," ","w","i","t","h"," ","s","e","c","u","r","i","t","y"," ","r","u","l","e","s",".">>,
     confidence |-> "high"],
    \* /SK[a-f0-9]{32}/g
    [name |-> <<"T","w","i","l","i","o"," ","A","u","t","h"," ","T","o","k","e","n">>,
     service |-> <<"T","w","i","l","i","o">>,
     pattern |-> <<Lit(<<"S","K">>),
                   Cls(HexLower, 32, 32)>>,
     severity |-> "high",
     description |-> <<"P","o","s","s","i","b","l","e"," ","T","w","i","l","i","o"," ","A","P","I"," ","k","e","y"," ","f","o","u","n","d",".">>,
     fix |-> <<"M","o","v","e"," ","t","o"," ","s","e","r","v","e","r","-","s","i","d","e"," ","a","n","d"," ","u","s","e"," ","T","w","i","l","i","o"," ","F","u","n","c","t","i","o","n","s"," ","o","r"," ","y","o","u","r"," ","o","w","n"," ","b","a","c","k","e","n","d",".">>,
     confidence |-> "medium"],
    \* /SG\.[a-zA-Z0-9_-]{22}\.[a-zA-Z0-9_-]{43}/g
    [name |-> <<"S","e","n","d","G","r","i","d"," ","A","P","I"," ","K","e","y">>,
     service |-> <<"S","e","n","d","G","r","i","d">>,
     pattern |-> <<Lit(<<"S","G",".">>),
                   Cls(AlnumUnderscoreDash, 22, 22),
                   Lit(<<".">>),
                   Cls(AlnumUnderscoreDash, 43, 43)>>,
     severity |-> "critical",
     description |-> <<"S","e","n","d","G","r","i","d"," ","A","P","I"," ","k","e","y"," ","f","o","u","n","d","."," ","T","h","i","s"," ","a","l","l","o","w","s"," ","s","e","n","d","i","n","g"," ","e","m","a","i","l","s"," ","f","r","o","m"," ","y","o","u","r"," ","a","c","c","o","u","n","t",".">>,
     fix |-> <<"M","o","v","e"," ","t","o"," ","s","e","r","v","e","r","-","s","i","d","e"," ","e","n","v","i","r","o","n","m","e","n","t"," ","v","a","r","i","a","b","l","e",".">>,
     confidence |-> "high"],
    \* /key-[a-zA-Z0-9]{32}/g
    [name |-> <<"M","a","i","l","g","u","n"," ","A","P","I"," ","K","e","y">>,
     service |-> <<"M","a","i","l","g","u","n">>,
     pattern |-> <<Lit(<<"k","e","y","-">>),
                   Cls(Alnum, 32, 32)>>,
     severity |-> "critical",
     description |-> <<"M","a","i","l","g","u","n"," ","A","P","I"," ","k","e","y"," ","f","o","u","n","d",".">>,
     fix |-> <<"M","o","v","e"," ","t","o"," ","s","e","r","v","e","r","-","s","i","d","e"," ","e","n","v","i","r","o","n","m","e","n","t"," ","v","a","r","i","a","b","l","e",".">>,
     confidence |-> "high"],
    \* /re_[a-zA-Z0-9]{32,}/g
    [name |-> <<"R","e","s","e","n","d"," ","A","P","I"," ","K","e","y">>,
     service |-> <<"R","e","s","e","n","d">>,
     pattern |-> <<Lit(<<"r","e","_">>),
                   Cls(Alnum, 32, Unbounded)>>,
     severity |-> "critical",
     description |-> <<"R","e","s","e","n","d"," ","A","P","I"," ","k","e","y"," ","f","o","u","n","d","."," ","S","o","m","e","o","n","e"," ","c","o","u","l","d"," ","s","e","n","d"," ","e","m","a","i","l","s"," ","f","r","o","m"," ","y","o","u","r"," ","a","c","c","o","u","n","t",".">>,
     fix |-> <<"M","o","v","e"," ","t","o"," ","s","e","r","v","e","r","-","s","i","d","e","."," ","U","s","e"," ","R","e","s","e","n","d","'","s"," ","A","P","I"," ","f","r","o","m"," ","y","o","u","r"," ","b","a","c","k","e","n","d",","," ","n","o","t"," ","f","r","o","n","t","e","n","d",".">>,
     confidence |-> "high"],
    \* /sk_(?:live|test)_[a-zA-Z0-9]{40,}/g
    [name |-> <<"C","l","e","r","k"," ","S","e","c","r","e","t"," ","K","e","y">>,
     service |-> <<"C","l","e","r","k">>,
     pattern |-> <<Lit(<<"s","k","_">>),
                   Alt(<<"l","i","v","e">>, <<"t","e","s","t">>),
                   Lit(<<"_">>),
                   Cls(Alnum, 40, Unbounded)>>,
     severity |-> "critical",
     description |-> <<"C","l","e","r","k"," ","s","e","c","r","e","t"," ","k","e","y"," ","f","o","u","n","d","."," ","T","h","i","s"," ","g","i","v","e","s"," ","f","u","l","l"," ","a","c","c","e","s","s"," ","t","o"," ","y","o","u","r"," ","a","u","t","h"," ","s","y","s","t","e","m",".">>,
     fix |-> <<"O","n","l","y"," ","u","s","e"," ","C","l","e","r","k"," ","p","u","b","l","i","s","h","a","b","l","e"," ","k","e","y","s"," ","(","p","k","_",")"," ","i","n"," ","f","r","o","n","t","e","n","d","."," ","S","e","c","r","e","t"," ","k","e","y","s"," ","g","o"," ","s","e","r","v","e","r","-","s","i","d","e",".">>,
     confidence |-> "high"],
    \* /vercel_[a-zA-Z0-9]{24,}/g
    [name |-> <<"V","e","r","c","e","l"," ","T","o","k","e","n">>,
     service |-> <<"V","e","r","c","e","l">>,
     pattern |-> <<Lit(<<"v","e","r","c","e","l","_">>),
                   Cls(Alnum, 24, Unbounded)>>,
     severity |-> "critical",
     description |-> <<"V","e","r","c","e","l"," ","d","e","p","l","o","y","m","e","n","t"," ","t","o","k","e","n"," ","f","o","u","n","d","."," ","C","o","u","l","d"," ","a","l","l","o","w"," ","u","n","a","u","t","h","o","r","i","z","e","d"," ","d","e","p","l","o","y","m","e","n","t","s",".">>,
     fix |-> <<"R","o","t","a","t","e"," ","t","h","i","s"," ","t","o","k","e","n"," ","i","n"," ","V","e","r","c","e","l"," ","s","e","t","t","i","n","g","s"," ","i","m","m","e","d","i","a","t","e","l","y",".">>,
     confidence |-> "high"],
    \* /mysql:\/\/[^:]+:[^@]+@[^\/]*\.psdb\.cloud/g
    [name |-> <<"P","l","a","n","e","t","S","c","a","l","e"," ","C","o","n","n","e","c","t","i","o","n">>,
     service |-> <<"P","l","a","n","e","t","S","c","a","l","e">>,
     pattern |-> <<Lit(<<"m","y","s","q","l",":","/","/">>),
                   Not({":"}, 1, Unbounded),
                   Lit(<<":">>),
                   Not({"@"}, 1, Unbounded),
                   Lit(<<"@">>),
                   Not({"/"}, 0, Unbounded),
                   Lit(<<".","p","s","d","b",".","c","l","o","u","d">>)>>,
     severity |-> "critical",
     description |-> <<"P","l","a","n","e","t","S","c","a","l","e"," ","d","a","t","a","b","a","s","e"," ","c","o","n","n","e","c","t","i","o","n"," ","s","t","r","i","n","g"," ","f","o","u","n","d",".">>,
     fix |-> <<"M","o","v","e"," ","d","a","t","a","b","a","s","e"," ","c","o","n","n","e","c","t","i","o","n","s"," ","t","o"," ","s","e","r","v","e","r","-","s","i","d","e","."," ","U","s","e"," ","A","P","I"," ","r","o","u","t","e","s",".">>,
     confidence |-> "high"],
    \* /postgres(?:ql)?:\/\/[^:]+:[^@]+@[^\/]*\.neon\.tech/g
    [name |-> <<"N","e","o","n"," ","D","a","t","a","b","a","s","e"," ","C","o","n","n","e","c","t","i","o","n">>,
     service |-> <<"N","e","o","n">>,
     pattern |-> <<Lit(<<"p","o","s","t","g","r","e","s">>),
                   Opt(<<"q","l">>),
                   Lit(<<":","/","/">>),
                   Not({":"}, 1, Unbounded),
                   Lit(<<":">>),
                   Not({"@"}, 1, Unbounded),
                   Lit(<<"@">>),
                   Not({"/"}, 0, Unbounded),
                   Lit(<<".","n","e","o","n",".","t","e","c","h">>)>>,
     severity |-> "critical",
     description |-> <<"N","e","o","n"," ","d","a","t","a","b","a","s","e"," ","c","o","n","n","e","c","t","i","o","n"," ","s","t","r","i","n","g"," ","f","o","u","n","d",".">>,
     fix |-> <<"N","e","v","e","r"," ","e","x","p","o","s","e"," ","d","a","t","a","b","a","s","e"," ","U","R","L","s"," ","i","n"," ","f","r","o","n","t","e","n","d","."," ","U","s","e"," ","s","e","r","v","e","r","-","s","i","d","e"," ","A","P","I"," ","r","o","u","t","e","s",".">>,
     confidence |-> "high"],
    \* /rediss?:\/\/[^:]+:[^@]+@[^\/]*\.upstash\.io/g
    [name |-> <<"U","p","s","t","a","s","h"," ","R","e","d","i","s">>,
     service |-> <<"U","p","s","t","a","s","h">>,
     pattern |-> <<Lit(<<"r","e","d","i","s">>),
                   Opt(<<"s">>),
                   Lit(<<":","/","/">>),
                   Not({":"}, 1, Unbounded),
                   Lit(<<":">>),
                   Not({"@"}, 1, Unbounded),
                   Lit(<<"@">>),
                   Not({"/"}, 0, Unbounded),
                   Lit(<<".","u","p","s","t","a","s","h",".","i","o">>)>>,
     severity |-> "critical",
     description |-> <<"U","p","s","t","a","s","h"," ","R","e","d","i","s"," ","c","o","n","n","e","c","t","i","o","n"," ","s","t","r","i","n","g"," ","f","o","u","n","d",".">>,
     fix |-> <<"U","s","e"," ","U","p","s","t","a","s","h"," ","R","E","S","T"," ","A","P","I"," ","w","i","t","h"," ","r","e","a","d","-","o","n","l","y"," ","t","o","k","e","n","s"," ","f","o","r"," ","f","r","o","n","t","e","n","d",","," ","o","r"," ","m","o","v","e"," ","t","o"," ","b","a","c","k","e","n","d",".">>,
     confidence |-> "high"],
    \* /prod:[a-zA-Z0-9]{10,}\|[a-zA-Z0-9]{10,}/g
    [name |-> <<"C","o","n","v","e","x"," ","D","e","p","l","o","y"," ","K","e","y">>,
     service |-> <<"C","o","n","v","e","x">>,
     pattern |-> <<Lit(<<"p","r","o","d",":">>),
                   Cls(Alnum, 10, Unbounded),
                   Lit(<<"|">>),
                   Cls(Alnum, 10, Unbounded)>>,
     severity |-> "high",
     description |-> <<"P","o","s","s","i","b","l","e"," ","C","o","n","v","e","x"," ","d","e","p","l","o","y"," ","k","e","y"," ","f","o","u","n","d",".">>,
     fix |-> <<"C","o","n","v","e","x"," ","d","e","p","l","o","y"," ","k","e","y","s"," ","s","h","o","u","l","d"," ","o","n","l","y"," ","b","e"," ","i","n"," ","C","I","/","C","D",","," ","n","o","t"," ","i","n"," ","f","r","o","n","t","e","n","d"," ","c","o","d","e",".">>,
     confidence |-> "medium"]
>>

\* function maskKey
Stars == <<"*","*","*","*">>
maskKey(key) ==
    IF Len(key) <= 16
    THEN Substring(key, 0, 4) \o Stars \o Substring(key, Len(key) - 4, Len(key))
    ELSE Substring(key, 0, 8) \o Stars \o Substring(key, Len(key) - 4, Len(key))

\* interface ExposedKey (pattern is the index into API_KEY_PATTERNS)
ExposedKey(k, match, location) ==
    [pattern |-> k, match |-> match, masked |-> maskKey(match), location |-> location]

\* found.some(f => f.masked === masked && f.pattern.name === keyPattern.name)
AlreadyFound(found, key) ==
    \E i \in 1..Len(found) :
        /\ found[i].masked = key.masked
        /\ API_KEY_PATTERNS[found[i].pattern].name = API_KEY_PATTERNS[key.pattern].name

\* if (!found.some(...)) found.push({...})
PushKey(found, key) == IF AlreadyFound(found, key) THEN found ELSE Append(found, key)

\* the keys of a list of per-pattern results, in table order
RECURSIVE FoundOf(_)
FoundOf(runs) == IF runs = <<>> THEN <<>> ELSE Head(runs).found \o FoundOf(Tail(runs))

\* what a scan returns: the keys found and the lastIndex the shared
\* patterns are left with
ScanResult(runs) ==
    [found |-> FoundOf(runs), lastIndex |-> [k \in 1..Len(runs) |-> runs[k].lastIndex]]

\* scanForKeys, variant: no reset of lastIndex and a single exec per pattern
ExecOnce(k, content, location, m) ==
    [found |-> IF m.index = NoMatch THEN <<>>
               ELSE <<ExposedKey(k, Substring(content, m.index, m.lastIndex), location)>>,
     lastIndex |-> m.lastIndex]

RECURSIVE ExecOnceFrom(_, _, _, _)
ExecOnceFrom(k, content, location, lastIndex) ==
    IF k > Len(API_KEY_PATTERNS) THEN <<>>
    ELSE <<ExecOnce(k, content, location,
                    RegExpExec(API_KEY_PATTERNS[k].pattern, content, lastIndex[k]))>>
            \o ExecOnceFrom(k + 1, content, location, lastIndex)

scanForKeysFirstMatchOnly(content, location, lastIndex) ==
    ScanResult(ExecOnceFrom(1, content, location, lastIndex))

\* while ((match = keyPattern.pattern.exec(content)) !== null) { ... }
\* found holds the keys of this pattern only: the names of the table are
\* pairwise distinct, so a key of another pattern never equals a new one
RECURSIVE ExecLoop(_, _, _, _, _)
RECURSIVE ExecStep(_, _, _, _, _)
ExecLoop(k, content, location, found, lastIndex) ==
    ExecStep(k, content, location, found,
             RegExpExec(API_KEY_PATTERNS[k].pattern, content, lastIndex))

\* one turn of the loop, m being what exec returned
ExecStep(k, content, location, found, m) ==
    IF m.index = NoMatch THEN [found |-> found, lastIndex |-> m.lastIndex]
    ELSE ExecLoop(k, content, location,
                  PushKey(found, ExposedKey(k, Substring(content, m.index, m.lastIndex), location)),
                  m.lastIndex)

\* for (const keyPattern of API_KEY_PATTERNS) { keyPattern.pattern.lastIndex = 0; ... }
RECURSIVE ExecLoopFrom(_, _, _)
ExecLoopFrom(k, content, location) ==
    IF k > Len(API_KEY_PATTERNS) THEN <<>>
    ELSE <<ExecLoop(k, content, location, <<>>, 0)>> \o ExecLoopFrom(k + 1, content, location)

\* function scanForKeys
scanForKeys(content, location, lastIndex) == ScanResult(ExecLoopFrom(1, content, location))

-----------------------------------------------------------------------------
(* checkApiKeys: the root page and its scripts                             *)

ScriptOpen  == <<"<","s","c","r","i","p","t">>
ScriptClose == <<"<","/","s","c","r","i","p","t",">">>
SrcEquals   == <<"s","r","c","=">>
TagEnd      == <<">">>
Quotes      == {"\"", "'"}

\* scriptContent.trim() is not empty
TrimNonEmpty(s) == \E i \in 1..Len(s) : s[i] \notin Whitespace

\* the capture groups of /<script(?![^>]*src=)[^>]*>([\s\S]*?)<\/script>/gi
\* in html from the position from on, in order (lower is html in lower
\* case, for the i flag)
RECURSIVE InlineScripts(_, _, _)
RECURSIVE InlineAt(_, _, _)
RECURSIVE InlineTag(_, _, _, _, _)
RECURSIVE InlineBody(_, _, _, _, _)
InlineScripts(html, lower, from) == InlineAt(html, lower, IndexOf(lower, ScriptOpen, from))

\* <script at p (or none left)
InlineAt(html, lower, p) ==
    IF p = NoMatch THEN <<>>
    ELSE InlineTag(html, lower, p, IndexOf(html, TagEnd, p + 7), IndexOf(lower, SrcEquals, p + 7))

\* (?![^>]*src=)[^>]*> : the tag ends at gt and has no src= before that
InlineTag(html, lower, p, gt, srcAt) ==
    IF gt = NoMatch \/ (srcAt # NoMatch /\ srcAt < gt) THEN InlineScripts(html, lower, p + 1)
    ELSE InlineBody(html, lower, p, gt, IndexOf(lower, ScriptClose, gt + 1))

\* ([\s\S]*?)<\/script> : the body runs up to the first closing tag
InlineBody(html, lower, p, gt, close) ==
    IF close = NoMatch THEN InlineScripts(html, lower, p + 1)
    ELSE <<Substring(html, gt + 1, close)>> \o InlineScripts(html, lower, close + 9)

NoSrc == [end |-> NoMatch, src |-> <<>>]

\* the first of two positions, NoMatch being none
FirstOf(a, b) == IF a = NoMatch THEN b ELSE IF b = NoMatch THEN a ELSE IF a < b THEN a ELSE b

\* ([^"']+)["'][^>]*> : the value opened at open runs up to the quote at q
\* and the tag ends at gt
SrcValue(html, open, q, gt) ==
    IF q # NoMatch /\ q > open + 1 /\ gt # NoMatch
    THEN [end |-> gt + 1, src |-> Substring(html, open + 1, q)]
    ELSE NoSrc

SrcQuoted(html, open, q) ==
    SrcValue(html, open, q, IF q = NoMatch THEN NoMatch ELSE IndexOf(html, TagEnd, q + 1))

\* src=["']([^"']+)["'][^>]*> at position k: the capture and the end of the
\* match, or NoSrc
SrcAttrAt(html, lower, k) ==
    IF MatchesAt(lower, SrcEquals, k) /\ k + 4 < Len(html) /\ html[k + 5] \in Quotes
    THEN SrcQuoted(html, k + 4,
                   FirstOf(IndexOf(html, <<"\"">>, k + 5), IndexOf(html, <<"'">>, k + 5)))
    ELSE NoSrc

\* the first of two attempts to match the attribute
SrcOrElse(first, second) == IF first.end # NoMatch THEN first ELSE second

\* the greedy [^>]+ of the tag gives way from the right: the last src= of
\* the tag that lets the rest of the pattern match
RECURSIVE LastSrcAttr(_, _, _, _)
LastSrcAttr(html, lower, k, low) ==
    IF k < low THEN NoSrc
    ELSE SrcOrElse(SrcAttrAt(html, lower, k), LastSrcAttr(html, lower, k - 1, low))

\* the capture groups of /<script[^>]+src=["']([^"']+)["'][^>]*>/gi in html
RECURSIVE ScriptSrcs(_, _, _)
RECURSIVE SrcsAt(_, _, _)
RECURSIVE SrcsTag(_, _, _, _)
RECURSIVE SrcsNext(_, _, _, _)
ScriptSrcs(html, lower, from) == SrcsAt(html, lower, IndexOf(lower, ScriptOpen, from))

\* <script at p (or none left)
SrcsAt(html, lower, p) ==
    IF p = NoMatch THEN <<>> ELSE SrcsTag(html, lower, p, IndexOf(html, TagEnd, p + 7))

\* [^>]+src= : src= lies before the first > after the tag name
SrcsTag(html, lower, p, gt) ==
    SrcsNext(html, lower, p,
             LastSrcAttr(html, lower, (IF gt = NoMatch THEN Len(html) ELSE gt) - 4, p + 8))

SrcsNext(html, lower, p, m) ==
    IF m.end = NoMatch THEN ScriptSrcs(html, lower, p + 1)
    ELSE <<m.src>> \o ScriptSrcs(html, lower, m.end)

\* the scanned site
TargetUrl == <<"h","t","t","p","s",":","/","/","t",".","i","o","/">>

SchemeEnd(url) == IndexOf(url, <<":","/","/">>, 0)

\* the end of the authority of an absolute URL
RECURSIVE AuthorityEnd(_, _)
AuthorityEnd(url, pos) ==
    IF pos >= Len(url) \/ url[pos + 1] \in {"/", "?", "#"} THEN pos
    ELSE AuthorityEnd(url, pos + 1)

\* scheme://host[:port] of an absolute URL
Origin(url) == Substring(url, 0, AuthorityEnd(url, SchemeEnd(url) + 3))

\* the host of host[:port]
HostOf(authority, colon) ==
    ToLowerCase(IF colon = NoMatch THEN authority ELSE Substring(authority, 0, colon))

AuthorityOf(url, start) == Substring(url, start, AuthorityEnd(url, start))

HostOfAuthority(authority) == HostOf(authority, IndexOf(authority, <<":">>, 0))

\* URL.hostname of an absolute URL
Hostname(url) == HostOfAuthority(AuthorityOf(url, SchemeEnd(url) + 3))

IsAbsolute(src) ==
    \/ StartsWith(ToLowerCase(src), <<"h","t","t","p",":","/","/">>)
    \/ StartsWith(ToLowerCase(src), <<"h","t","t","p","s",":","/","/">>)

\* new URL(src, baseUrl).toString() for a base whose path is /
ResolveUrl(src, baseUrl) ==
    IF IsAbsolute(src) THEN src
    ELSE IF StartsWith(src, <<"/","/">>) THEN Substring(baseUrl, 0, SchemeEnd(baseUrl) + 1) \o src
    ELSE IF StartsWith(src, <<"/">>) THEN Origin(baseUrl) \o src
    ELSE Origin(baseUrl) \o <<"/">> \o src

\* new URL(...) throws: an absolute URL without a host
InvalidUrl(src) == IsAbsolute(src) /\ Hostname(src) = <<>>

\* if (script.hostname === base.hostname) urls.push(fullUrl)
SameHostUrl(src, fullUrl, baseUrl) ==
    IF ~InvalidUrl(src) /\ Hostname(fullUrl) = Hostname(baseUrl) THEN <<fullUrl>> ELSE <<>>

RECURSIVE SameHostUrls(_, _)
SameHostUrls(srcs, baseUrl) ==
    IF srcs = <<>> THEN <<>>
    ELSE SameHostUrl(Head(srcs), ResolveUrl(Head(srcs), baseUrl), baseUrl)
            \o SameHostUrls(Tail(srcs), baseUrl)

\* function extractJsUrls
extractJsUrls(html, baseUrl) == SameHostUrls(ScriptSrcs(html, ToLowerCase(html), 0), baseUrl)

\* jsUrls.slice(0, 5)
MaxScripts == 5
Slice(urls, n) == SubSeq(urls, 1, Min(n, Len(urls)))

\* jsContent.substring(0, 500000)
ScanLimit == 500000

-----------------------------------------------------------------------------
(* checkApiKeys: what the site serves                                      *)

\* an AWS access key id and a Stripe secret key
AwsKey == <<"A","K","I","A","I","O","S","F","O","D","N","N","7","E","X","A","M","P","L","E">>
StripeKey == <<"s","k","_","l","i","v","e","_","4","e","C","3","9","H","q","L","y","j","W","D","a","r","j","t","T","1","z","d","p","7","d","c">>

\* a page without scripts
PagePlain == <<"<","h","t","m","l",">","<","b","o","d","y",">","o","k","<","/","b","o","d","y",">","<","/","h","t","m","l",">">>

\* a key in an inline script
PageInlineKey ==
    Join(<<<<"<","s","c","r","i","p","t",">","k","=","\"">>,
           AwsKey,
           <<"\"",";","<","/","s","c","r","i","p","t",">">>>>)

\* a key in a data attribute, no script
PageDataAttr ==
    Join(<<<<"<","d","i","v"," ","d","a","t","a","-","k","=","\"">>,
           AwsKey,
           <<"\"",">","<","/","d","i","v",">">>>>)

\* one script of the site
PageOneScript == <<"<","s","c","r","i","p","t"," ","s","r","c","=","\"","/","a",".","j","s","\"",">","<","/","s","c","r","i","p","t",">">>

\* one script of the site, loaded with a key in its query string
PageKeyInUrl ==
    Join(<<<<"<","s","c","r","i","p","t"," ","s","r","c","=","\"","/","a",".","j","s","?","k","=">>,
           AwsKey,
           <<"\"",">","<","/","s","c","r","i","p","t",">">>>>)

\* an upper-case tag, a script of another host, a tag without a valid URL, an empty inline script and an inline script with the same key twice
PageMixed ==
    Join(<<<<"<","S","C","R","I","P","T"," ","d","e","f","e","r"," ","S","R","C","=","'","/","a",".","j","s","'",">","<","/","S","C","R","I","P","T",">","<","s","c","r","i","p","t"," ","s","r","c","=","\"","h","t","t","p","s",":","/","/","c","d","n",".","y","/","c",".","j","s","\"",">","<","/","s","c","r","i","p","t",">","<","s","c","r","i","p","t"," ","s","r","c","=","\"","h","t","t","p","s",":","/","/","\"",">","<","/","s","c","r","i","p","t",">","<","s","c","r","i","p","t",">"," ","<","/","s","c","r","i","p","t",">","<","s","c","r","i","p","t",">","s","=","\"">>,
           StripeKey,
           <<"\"",";","t","=","\"">>,
           StripeKey,
           <<"\"","<","/","s","c","r","i","p","t",">">>>>)

\* six scripts of the site
PageSixScripts == <<"<","s","c","r","i","p","t"," ","s","r","c","=","\"","/","1",".","j","s","\"",">","<","/","s","c","r","i","p","t",">","<","s","c","r","i","p","t"," ","s","r","c","=","\"","/","2",".","j","s","\"",">","<","/","s","c","r","i","p","t",">","<","s","c","r","i","p","t"," ","s","r","c","=","\"","/","3",".","j","s","\"",">","<","/","s","c","r","i","p","t",">","<","s","c","r","i","p","t"," ","s","r","c","=","\"","/","4",".","j","s","\"",">","<","/","s","c","r","i","p","t",">","<","s","c","r","i","p","t"," ","s","r","c","=","\"","/","5",".","j","s","\"",">","<","/","s","c","r","i","p","t",">","<","s","c","r","i","p","t"," ","s","r","c","=","\"","/","6",".","j","s","\"",">","<","/","s","c","r","i","p","t",">">>

\* two scripts of the target's host: one over http, one on another port
PageOtherOrigins == <<"<","s","c","r","i","p","t"," ","s","r","c","=","\"","h","t","t","p",":","/","/","t",".","i","o","/","a",".","j","s","\"",">","<","/","s","c","r","i","p","t",">","<","s","c","r","i","p","t"," ","s","r","c","=","\"","h","t","t","p","s",":","/","/","t",".","i","o",":","8","4","4","3","/","b",".","j","s","\"",">","<","/","s","c","r","i","p","t",">">>

\* a script without keys
ScriptClean == <<"v","a","r"," ","a","=","1",";">>

\* a script with a key
ScriptWithKey ==
    Join(<<<<"v","a","r"," ","k","=","\"">>,
           AwsKey,
           <<"\"",";">>>>)
RootPages == {PagePlain, PageInlineKey, PageDataAttr, PageOneScript, PageKeyInUrl,
              PageMixed, PageSixScripts, PageOtherOrigins}

\* what the fetch of the root page can give: a rejection (network error or
\* the abort of the timer), a status that is not ok, a page
RootAnswers ==
    {[kind |-> "error", body |-> <<>>], [kind |-> "notok", body |-> <<>>]}
        \cup {[kind |-> "ok", body |-> page] : page \in RootPages}

\* what the fetch of a script can give
ScriptAnswers ==
    {[kind |-> "error", body |-> <<>>], [kind |-> "notok", body |-> <<>>],
     [kind |-> "ok", body |-> ScriptClean], [kind |-> "ok", body |-> ScriptWithKey]}

-----------------------------------------------------------------------------
(* checkApiKeys                                                            *)

InlineLocation == <<"i","n","l","i","n","e"," ","s","c","r","i","p","t">>
HtmlLocation   == <<"H","T","M","L"," ","s","o","u","r","c","e">>
FetchFailed    == <<"f","e","t","c","h"," ","f","a","i","l","e","d">>
FailedToFetch  == <<"F","a","i","l","e","d"," ","t","o"," ","f","e","t","c","h",":"," ","4","0","4">>

NoKeysResult == [name |-> "none"]

\* the call of checkApiKeys, awaiting the root page
KeysCall(run, lastIndex, replay, first) ==
    [pc |-> "root", run |-> run, lastIndex |-> lastIndex, jsUrls |-> <<>>, next |-> 0,
     allFoundKeys |-> <<>>, served |-> <<>>, replay |-> replay,
     result |-> NoKeysResult, first |-> first]

\* the result of a run that could not fetch the root page
KeysError(message) ==
    [name |-> "API Key Exposure", passed |-> TRUE, issues |-> <<>>,
     details |-> [kind |-> "error", error |-> message, keysFound |-> <<>>]]

\* issues.push({...}) for one found key
IssueOf(p, masked) ==
    [id |-> Join(<<<<"a","p","i","k","e","y","-">>, ToLowerCase(p.service), <<"-">>,
                   Substring(masked, 0, 8)>>),
     severity |-> p.severity,
     category |-> "Exposed Secrets",
     title |-> Join(<<p.name, <<" ","e","x","p","o","s","e","d",":"," ">>, masked>>),
     description |-> p.description,
     fix |-> p.fix]

KeyIssue(key) == IssueOf(API_KEY_PATTERNS[key.pattern], key.masked)

\* allFoundKeys.map(k => ({service, masked, location, confidence}))
KeyFound(key) ==
    [service |-> API_KEY_PATTERNS[key.pattern].service, masked |-> key.masked,
     location |-> key.location, confidence |-> API_KEY_PATTERNS[key.pattern].confidence]

\* the result of a run that scanned the page
KeysResult(allFoundKeys) ==
    [name |-> "API Key Exposure", passed |-> allFoundKeys = <<>>,
     issues |-> [i \in 1..Len(allFoundKeys) |-> KeyIssue(allFoundKeys[i])],
     details |-> [kind |-> "keys", error |-> <<>>,
                  keysFound |-> [i \in 1..Len(allFoundKeys) |-> KeyFound(allFoundKeys[i])]]]

KeysReturn(k, result) == [k EXCEPT !.pc = "done", !.result = result]

\* the loop over the inline scripts of the page
RECURSIVE ScanInline(_, _, _)
RECURSIVE InlineScanned(_, _, _)
ScanInline(scripts, found, lastIndex) ==
    IF scripts = <<>> THEN [found |-> found, lastIndex |-> lastIndex]
    ELSE IF ~TrimNonEmpty(Head(scripts)) THEN ScanInline(Tail(scripts), found, lastIndex)
    ELSE InlineScanned(Tail(scripts), found, scanForKeys(Head(scripts), InlineLocation, lastIndex))

\* allFoundKeys.push(...found)
InlineScanned(scripts, found, r) == ScanInline(scripts, found \o r.found, r.lastIndex)

\* the root page is scanned: return, or go on to the first script
ScriptsListed(k, found, lastIndex, jsUrls) ==
    IF jsUrls = <<>>
    THEN KeysReturn([k EXCEPT !.lastIndex = lastIndex, !.allFoundKeys = found], KeysResult(found))
    ELSE [k EXCEPT !.pc = "script", !.lastIndex = lastIndex, !.allFoundKeys = found,
                   !.jsUrls = jsUrls, !.next = 1]

\* const htmlKeys = scanForKeys(html, 'HTML source'); allFoundKeys.push(...htmlKeys)
HtmlScanned(k, html, inlineKeys, htmlKeys) ==
    ScriptsListed(k, inlineKeys \o htmlKeys.found, htmlKeys.lastIndex,
                  Slice(extractJsUrls(html, TargetUrl), MaxScripts))

InlineDone(k, html, inline) ==
    HtmlScanned(k, html, inline.found, scanForKeys(html, HtmlLocation, inline.lastIndex))

PageFetched(k, html) ==
    InlineDone(k, html, ScanInline(InlineScripts(html, ToLowerCase(html), 0), <<>>, k.lastIndex))

Serve(k, answer) == [k EXCEPT !.served = Append(@, answer)]

\* checkApiKeys from the answer to the root fetch up to the first script fetch
RootSettled(k, answer) ==
    IF answer.kind = "error" THEN KeysReturn(Serve(k, answer), KeysError(FetchFailed))
    ELSE IF answer.kind = "notok" THEN KeysReturn(Serve(k, answer), KeysError(FailedToFetch))
    ELSE PageFetched(Serve(k, answer), answer.body)

\* the loop goes on to the next script, or the run returns
ScriptDone(k, found, lastIndex) ==
    IF k.next < Len(k.jsUrls)
    THEN [k EXCEPT !.lastIndex = lastIndex, !.allFoundKeys = found, !.next = @ + 1]
    ELSE KeysReturn([k EXCEPT !.lastIndex = lastIndex, !.allFoundKeys = found], KeysResult(found))

\* allFoundKeys.push(...found)
ScriptScanned(k, r) == ScriptDone(k, k.allFoundKeys \o r.found, r.lastIndex)

\* one turn of the loop over jsUrls, from the answer to the script fetch
ScriptSettled(k, answer) ==
    IF answer.kind = "ok"
    THEN ScriptScanned(Serve(k, answer),
                       scanForKeys(Substring(answer.body, 0, ScanLimit), k.jsUrls[k.next], k.lastIndex))
    ELSE ScriptDone(Serve(k, answer), k.allFoundKeys, k.lastIndex)

\* a later run is served what the first run was served
Served(k, answer) ==
    k.run = 1 \/ (Len(k.served) < Len(k.replay) /\ answer = k.replay[Len(k.served) + 1])

KeysRootSettle ==
    /\ keys.pc = "root"
    /\ \E answer \in RootAnswers :
        /\ Served(keys, answer)
        /\ keys' = RootSettled(keys, answer)
    /\ UNCHANGED <<dns, probe, tko, scan, net, fcall>>

KeysScriptSettle ==
    /\ keys.pc = "script"
    /\ \E answer \in ScriptAnswers :
        /\ Served(keys, answer)
        /\ keys' = ScriptSettled(keys, answer)
    /\ UNCHANGED <<dns, probe, tko, scan, net, fcall>>

\* checkApiKeys is called again in the same process
KeysCallAgain ==
    /\ keys.pc = "done"
    /\ keys.run < MaxRuns
    /\ keys' = KeysCall(keys.run + 1, keys.lastIndex,
                        IF keys.run = 1 THEN keys.served ELSE keys.replay,
                        IF keys.run = 1 THEN keys.result ELSE keys.first)
    /\ UNCHANGED <<dns, probe, tko, scan, net, fcall>>

InitKeys ==
    /\ keys = KeysCall(1, [k \in 1..Len(API_KEY_PATTERNS) |-> 0], <<>>, NoKeysResult)
    /\ dns = Idle /\ probe = Idle /\ tko = Idle /\ scan = Idle /\ net = Idle /\ fcall = Idle

NextKeys == KeysRootSettle \/ KeysScriptSettle \/ KeysCallAgain

SpecKeys == InitKeys /\ [][NextKeys]_vars

-----------------------------------------------------------------------------
(* checkApiKeys: properties                                                *)

\* the texts of a result: of its issues and of its details
ResultTexts(result) ==
    UNION {{result.issues[i].id, result.issues[i].title, result.issues[i].description,
            result.issues[i].fix} : i \in 1..Len(result.issues)}
        \cup UNION {{result.details.keysFound[i].service, result.details.keysFound[i].masked,
                     result.details.keysFound[i].location} :
                        i \in 1..Len(result.details.keysFound)}
        \cup {result.details.error}

\* C5: in the result of checkApiKeys no two findings have the same service
\* and the same masked value: a secret present in several scanned sources
\* (inline script, HTML source, fetched scripts) is reported once.
C5_SecretReportedOnce ==
    keys.pc = "done" =>
        \A i, j \in 1..Len(keys.result.details.keysFound) :
            (/\ keys.result.details.keysFound[i].service = keys.result.details.keysFound[j].service
             /\ keys.result.details.keysFound[i].masked = keys.result.details.keysFound[j].masked)
                => (i = j)

\* C6: a later run of checkApiKeys that is served what the first run was
\* served returns what the first run returned (same findings, same masked
\* values, same order), whatever lastIndex the first run left in the
\* shared patterns.
C6_SecondRunSameResult ==
    (keys.pc = "done" /\ keys.run > 1) => (keys.result = keys.first)

\* a later run has returned, and the first one had found keys in an inline
\* script, in the HTML source and in a fetched script
C6_Witness ==
    /\ keys.pc = "done" /\ keys.run > 1
    /\ \E i, j, l \in 1..Len(keys.first.details.keysFound) :
        /\ keys.first.details.keysFound[i].location = InlineLocation
        /\ keys.first.details.keysFound[j].location = HtmlLocation
        /\ keys.first.details.keysFound[l].location \notin {InlineLocation, HtmlLocation}
    /\ keys.result.issues # <<>>

\* C7: no text of the result of checkApiKeys (issue id, title, description,
\* fix, details.keysFound) contains a string matched by a pattern of the
\* table in full.
C7_ResultMasksSecrets ==
    keys.pc = "done" =>
        \A i \in 1..Len(keys.allFoundKeys) :
            \A text \in ResultTexts(keys.result) :
                ~Includes(text, keys.allFoundKeys[i].match)

-----------------------------------------------------------------------------
(* checkExposedFiles and checkAdminPaths: text, regular expressions, JSON  *)

\* \w
WordChars == Alnum \cup {"_"}

\* an alternation of literals (a|b|c)
OneOf(alts) == [kind |-> "lit", alts |-> alts, chars |-> {}, neg |-> FALSE, min |-> 1, max |-> 1]

\* .* (min = 0) and .+ (min = 1)
AnyRun(min) == Not(LineTerminators, min, Unbounded)

\* RegExp.prototype.test of a pattern without the g flag
RegExpTest(re, s) == FirstMatchIn(re, s, 0, Len(s)) # NoMatch

\* test of a pattern that is an alternation of patterns
RegExpTestAny(res, s) == \E a \in 1..Len(res) : RegExpTest(res[a], s)

\* the character at the 0-based position pos, "" past the end
CharAt(s, pos) == IF pos >= 0 /\ pos < Len(s) THEN s[pos + 1] ELSE ""

\* String.prototype.trim
RECURSIVE TrailingRun(_, _)
TrailingRun(s, n) ==
    IF n < Len(s) /\ s[Len(s) - n] \in Whitespace THEN TrailingRun(s, n + 1) ELSE n

TrimFrom(s, lead) ==
    IF lead = Len(s) THEN <<>> ELSE Substring(s, lead, Len(s) - TrailingRun(s, 0))

Trim(s) == TrimFrom(s, RunLength(s, 0, Cls(Whitespace, 0, Unbounded), 0))

\* path.replace(/[^a-z0-9]/gi, '-')
ReplaceNonAlnum(path) == [i \in 1..Len(path) |-> IF path[i] \in Alnum THEN path[i] ELSE "-"]

\* parseInt(text, 10): leading white space, a sign, then decimal digits;
\* NaN when there is no digit
NaN == [nan |-> TRUE, value |-> 0]

DigitValue(c) == CHOOSE d \in 0..9 : ToString(d) = c

RECURSIVE ParseDigits(_, _, _)
ParseDigits(s, pos, value) ==
    IF CharAt(s, pos) \in DigitChars
    THEN ParseDigits(s, pos + 1, 10 * value + DigitValue(CharAt(s, pos)))
    ELSE value

ParseUnsigned(s, pos, sign) ==
    IF CharAt(s, pos) \in DigitChars
    THEN [nan |-> FALSE, value |-> sign * ParseDigits(s, pos, 0)]
    ELSE NaN

ParseSigned(s, pos) ==
    IF CharAt(s, pos) = "-" THEN ParseUnsigned(s, pos + 1, -1)
    ELSE IF CharAt(s, pos) = "+" THEN ParseUnsigned(s, pos + 1, 1)
    ELSE ParseUnsigned(s, pos, 1)

parseInt(text) == ParseSigned(text, RunLength(text, 0, Cls(Whitespace, 0, Unbounded), 0))

\* number > limit (false for NaN)
GreaterThan(number, limit) == ~number.nan /\ number.value > limit

\* ---- JSON.parse ----
\* The parser follows the JSON grammar on the characters of the text and
\* yields the kind of the top-level value and, for an object, its keys (the
\* keys of the served texts carry no escape sequences).

SkipWs(s, pos) == pos + RunLength(s, pos, Cls(Whitespace, 0, Unbounded), 0)

JsonStringChars == Not({"\"", "\\", "\n", "\r", "\t"}, 0, Unbounded)
JsonEscapes == {"\"", "\\", "/", "b", "f", "n", "r", "t"}
HexChars == HexLower \cup {"A", "B", "C", "D", "E", "F"}

\* the position after the closing quote of a string, from a position inside it
RECURSIVE JsonStringFrom(_, _)
RECURSIVE JsonStringAt(_, _)
JsonStringFrom(s, pos) == JsonStringAt(s, pos + RunLength(s, pos, JsonStringChars, 0))

JsonStringAt(s, p) ==
    IF CharAt(s, p) = "\"" THEN p + 1
    ELSE IF CharAt(s, p) # "\\" THEN NoMatch
    ELSE IF CharAt(s, p + 1) \in JsonEscapes THEN JsonStringFrom(s, p + 2)
    ELSE IF CharAt(s, p + 1) = "u" /\ RunLength(s, p + 2, Cls(HexChars, 4, 4), 0) = 4
         THEN JsonStringFrom(s, p + 6)
    ELSE NoMatch

\* a JSON number: sign, integer part without leading zeros, fraction, exponent
DigitRun(s, p) == p + RunLength(s, p, Cls(DigitChars, 0, Unbounded), 0)

JsonExpDigits(s, p) == IF CharAt(s, p) \in DigitChars THEN DigitRun(s, p) ELSE NoMatch

JsonExponent(s, p) ==
    IF CharAt(s, p) \notin {"e", "E"} THEN p
    ELSE JsonExpDigits(s, IF CharAt(s, p + 1) \in {"+", "-"} THEN p + 2 ELSE p + 1)

JsonFraction(s, p) ==
    IF CharAt(s, p) # "." THEN JsonExponent(s, p)
    ELSE IF CharAt(s, p + 1) \in DigitChars THEN JsonExponent(s, DigitRun(s, p + 1))
    ELSE NoMatch

JsonIntAt(s, p) ==
    IF CharAt(s, p) = "0" THEN JsonFraction(s, p + 1)
    ELSE IF CharAt(s, p) \in DigitChars THEN JsonFraction(s, DigitRun(s, p))
    ELSE NoMatch

JsonNumberEnd(s, pos) == JsonIntAt(s, IF CharAt(s, pos) = "-" THEN pos + 1 ELSE pos)

JsonLiteralEnd(s, pos) ==
    IF MatchesAt(s, <<"t","r","u","e">>, pos) THEN pos + 4
    ELSE IF MatchesAt(s, <<"f","a","l","s","e">>, pos) THEN pos + 5
    ELSE IF MatchesAt(s, <<"n","u","l","l">>, pos) THEN pos + 4
    ELSE NoMatch

\* the position after the value that starts at pos, or NoMatch
RECURSIVE JsonValueEnd(_, _)
RECURSIVE JsonElement(_, _)
RECURSIVE JsonElementEnd(_, _)
RECURSIVE JsonMember(_, _)
RECURSIVE JsonMemberKey(_, _)
RECURSIVE JsonMemberColon(_, _)
RECURSIVE JsonMemberValue(_, _)
RECURSIVE JsonMemberEnd(_, _)
JsonValueEnd(s, pos) ==
    IF CharAt(s, pos) = "{"
    THEN (IF CharAt(s, SkipWs(s, pos + 1)) = "}" THEN SkipWs(s, pos + 1) + 1
          ELSE JsonMember(s, SkipWs(s, pos + 1)))
    ELSE IF CharAt(s, pos) = "["
    THEN (IF CharAt(s, SkipWs(s, pos + 1)) = "]" THEN SkipWs(s, pos + 1) + 1
          ELSE JsonElement(s, SkipWs(s, pos + 1)))
    ELSE IF CharAt(s, pos) = "\"" THEN JsonStringFrom(s, pos + 1)
    ELSE IF CharAt(s, pos) \in DigitChars \cup {"-"} THEN JsonNumberEnd(s, pos)
    ELSE JsonLiteralEnd(s, pos)

JsonElement(s, p) == JsonElementEnd(s, JsonValueEnd(s, p))

JsonElementEnd(s, e) ==
    IF e = NoMatch THEN NoMatch
    ELSE IF CharAt(s, SkipWs(s, e)) = "," THEN JsonElement(s, SkipWs(s, SkipWs(s, e) + 1))
    ELSE IF CharAt(s, SkipWs(s, e)) = "]" THEN SkipWs(s, e) + 1
    ELSE NoMatch

JsonMember(s, p) ==
    IF CharAt(s, p) = "\"" THEN JsonMemberKey(s, JsonStringFrom(s, p + 1)) ELSE NoMatch

JsonMemberKey(s, e) == IF e = NoMatch THEN NoMatch ELSE JsonMemberColon(s, SkipWs(s, e))

JsonMemberColon(s, p) ==
    IF CharAt(s, p) = ":" THEN JsonMemberValue(s, JsonValueEnd(s, SkipWs(s, p + 1)))
    ELSE NoMatch

JsonMemberValue(s, e) == IF e = NoMatch THEN NoMatch ELSE JsonMemberEnd(s, SkipWs(s, e))

JsonMemberEnd(s, p) ==
    IF CharAt(s, p) = "," THEN JsonMember(s, SkipWs(s, p + 1))
    ELSE IF CharAt(s, p) = "}" THEN p + 1
    ELSE NoMatch

\* the keys of a well-formed object whose first member starts at p
RECURSIVE JsonKeys(_, _)
RECURSIVE JsonKeysAfter(_, _, _)
RECURSIVE JsonKeysNext(_, _)
JsonKeys(s, p) ==
    IF CharAt(s, p) # "\"" THEN {} ELSE JsonKeysAfter(s, p, JsonStringFrom(s, p + 1))

JsonKeysAfter(s, p, e) ==
    {Substring(s, p + 1, e - 1)}
        \cup JsonKeysNext(s, SkipWs(s, JsonValueEnd(s, SkipWs(s, SkipWs(s, e) + 1))))

JsonKeysNext(s, p) == IF CharAt(s, p) = "," THEN JsonKeys(s, SkipWs(s, p + 1)) ELSE {}

\* JSON.parse throws a SyntaxError
SyntaxError == [ok |-> FALSE, kind |-> "none", keys |-> {}]

JsonKind(c) ==
    IF c = "{" THEN "object"
    ELSE IF c = "[" THEN "array"
    ELSE IF c = "\"" THEN "string"
    ELSE IF c \in DigitChars \cup {"-"} THEN "number"
    ELSE IF c = "n" THEN "null"
    ELSE "boolean"

JsonTop(s, p, e) ==
    IF e = NoMatch THEN SyntaxError
    ELSE IF SkipWs(s, e) # Len(s) THEN SyntaxError
    ELSE [ok |-> TRUE, kind |-> JsonKind(CharAt(s, p)),
          keys |-> IF CharAt(s, p) = "{" THEN JsonKeys(s, SkipWs(s, p + 1)) ELSE {}]

JsonParsed(s, p) == JsonTop(s, p, JsonValueEnd(s, p))

JsonParse(text) == JsonParsed(text, SkipWs(text, 0))

\* try { JSON.parse(content); key in parsed } catch: the parse throws on
\* malformed text, the in operator throws on a value that is no object
Throws(parsed) == ~parsed.ok \/ parsed.kind \notin {"object", "array"}

\* key in parsed
In(key, parsed) == parsed.kind = "object" /\ key \in parsed.keys

-----------------------------------------------------------------------------
(* checkExposedFiles: validators and table                                 *)

HtmlContentType == <<"t","e","x","t","/","h","t","m","l">>

\* content.trim().startsWith('<!DOCTYPE') || content.trim().startsWith('<html')
LooksLikeHtml(trimmed) ==
    StartsWith(trimmed, <<"<","!","D","O","C","T","Y","P","E">>) \/ StartsWith(trimmed, <<"<","h","t","m","l">>)

\* /^[A-Z_][A-Z0-9_]*\s*=.+/m
EnvLine == <<Anchor("bol"), Cls(UpperChars \cup {"_"}, 1, 1),
             Cls(UpperDigit \cup {"_"}, 0, Unbounded),
             Cls(Whitespace, 0, Unbounded), Lit(<<"=">>), AnyRun(1)>>

\* a variant that only looks for a KEY=VALUE line
envFileAnyContent(content, contentType) == RegExpTest(EnvLine, content)

envFile(content, contentType) ==
    IF Includes(contentType, HtmlContentType) THEN FALSE
    ELSE IF LooksLikeHtml(Trim(content)) THEN FALSE
    ELSE RegExpTest(EnvLine, content)

\* /\[(core|remote|branch|user|submodule)/i, on the text in lower case
GitSection == <<Lit(<<"[">>), OneOf(<<<<"c","o","r","e">>, <<"r","e","m","o","t","e">>, <<"b","r","a","n","c","h">>, <<"u","s","e","r">>, <<"s","u","b","m","o","d","u","l","e">>>>)>>

gitConfig(content, contentType) ==
    IF Includes(contentType, HtmlContentType) THEN FALSE
    ELSE IF LooksLikeHtml(Trim(content)) THEN FALSE
    ELSE RegExpTest(GitSection, ToLowerCase(content))

\* /^ref: refs\/(heads|tags)\// and /^[a-f0-9]{40}$/
GitRef == <<Anchor("start"), Lit(<<"r","e","f",":"," ","r","e","f","s","/">>), OneOf(<<<<"h","e","a","d","s">>, <<"t","a","g","s">>>>), Lit(<<"/">>)>>
GitSha == <<Anchor("start"), Cls(HexLower, 40, 40), Anchor("end")>>

gitHead(content, contentType) ==
    IF Includes(contentType, HtmlContentType) THEN FALSE
    ELSE RegExpTest(GitRef, Trim(content)) \/ RegExpTest(GitSha, Trim(content))

\* /(CREATE TABLE|INSERT INTO|DROP TABLE|SELECT \* FROM|ALTER TABLE|--.*dump)/i
SqlSyntax == <<
    <<Lit(<<"c","r","e","a","t","e"," ","t","a","b","l","e">>)>>, <<Lit(<<"i","n","s","e","r","t"," ","i","n","t","o">>)>>, <<Lit(<<"d","r","o","p"," ","t","a","b","l","e">>)>>,
    <<Lit(<<"s","e","l","e","c","t"," ","*"," ","f","r","o","m">>)>>, <<Lit(<<"a","l","t","e","r"," ","t","a","b","l","e">>)>>,
    <<Lit(<<"-","-">>), AnyRun(0), Lit(<<"d","u","m","p">>)>> >>

sqlFile(content, contentType) ==
    IF Includes(contentType, HtmlContentType) THEN FALSE
    ELSE IF LooksLikeHtml(Trim(content)) THEN FALSE
    ELSE RegExpTestAny(SqlSyntax, ToLowerCase(content))

SourceMapKeys(parsed) ==
    IF Throws(parsed) THEN FALSE
    ELSE In(<<"v","e","r","s","i","o","n">>, parsed) /\ (In(<<"s","o","u","r","c","e","s">>, parsed) \/ In(<<"m","a","p","p","i","n","g","s">>, parsed))

sourceMap(content, contentType) ==
    IF Includes(contentType, HtmlContentType) THEN FALSE
    ELSE SourceMapKeys(JsonParse(content))

phpInfo(content, contentType) ==
    Includes(content, <<"P","H","P"," ","V","e","r","s","i","o","n">>) /\ Includes(content, <<"C","o","n","f","i","g","u","r","a","t","i","o","n">>)

\* /\d{4}[-/]\d{2}[-/]\d{2}|\[error\]|\[warning\]|\[info\]|\[debug\]/i
LogLine == <<
    <<Cls(DigitChars, 4, 4), Cls({"-", "/"}, 1, 1), Cls(DigitChars, 2, 2),
      Cls({"-", "/"}, 1, 1), Cls(DigitChars, 2, 2)>>,
    <<Lit(<<"[","e","r","r","o","r","]">>)>>, <<Lit(<<"[","w","a","r","n","i","n","g","]">>)>>, <<Lit(<<"[","i","n","f","o","]">>)>>, <<Lit(<<"[","d","e","b","u","g","]">>)>> >>

logFile(content, contentType) ==
    IF Includes(contentType, HtmlContentType) THEN FALSE
    ELSE IF LooksLikeHtml(Trim(content)) THEN FALSE
    ELSE RegExpTestAny(LogLine, ToLowerCase(content))

jsonConfig(content, contentType) ==
    IF Includes(contentType, HtmlContentType) THEN FALSE
    ELSE JsonParse(content).ok

\* /^[#*\/\w\.\-]+$/m
IgnoreLine == <<Anchor("bol"), Cls(WordChars \cup {"#", "*", "/", ".", "-"}, 1, Unbounded),
                Anchor("eol")>>

gitignore(content, contentType) ==
    IF Includes(contentType, HtmlContentType) THEN FALSE
    ELSE IF LooksLikeHtml(Trim(content)) THEN FALSE
    ELSE /\ RegExpTest(IgnoreLine, content)
         /\ \/ Includes(content, <<"n","o","d","e","_","m","o","d","u","l","e","s">>)
            \/ Includes(content, <<".","e","n","v">>)
            \/ Includes(content, <<"*",".","l","o","g">>)
            \/ Includes(content, <<".","g","i","t">>)
            \/ Includes(content, <<"d","i","s","t","/">>)
            \/ Includes(content, <<"b","u","i","l","d","/">>)

\* the two bytes 0x1f 0x8b a gzip file starts with
GzipMagic == <<"U+001F", "U+008B">>

archiveFile(content, contentType) ==
    \/ StartsWith(content, <<"P","K">>)
    \/ StartsWith(content, GzipMagic)
    \/ Includes(contentType, <<"a","p","p","l","i","c","a","t","i","o","n","/","z","i","p">>)
    \/ Includes(contentType, <<"a","p","p","l","i","c","a","t","i","o","n","/","g","z","i","p">>)
    \/ Includes(contentType, <<"a","p","p","l","i","c","a","t","i","o","n","/","x","-","t","a","r">>)
    \/ Includes(contentType, <<"a","p","p","l","i","c","a","t","i","o","n","/","o","c","t","e","t","-","s","t","r","e","a","m">>)

phpConfig(content, contentType) ==
    IF Includes(content, <<"<","?","p","h","p">>) \/ Includes(content, <<"<","?","=">>)
    THEN \/ Includes(content, <<"D","B","_">>)
         \/ Includes(content, <<"d","a","t","a","b","a","s","e">>)
         \/ Includes(content, <<"p","a","s","s","w","o","r","d">>)
    ELSE FALSE

PackageKeys(parsed) ==
    IF Throws(parsed) THEN FALSE
    ELSE In(<<"n","a","m","e">>, parsed) \/ In(<<"v","e","r","s","i","o","n">>, parsed) \/ In(<<"d","e","p","e","n","d","e","n","c","i","e","s">>, parsed)

packageJson(content, contentType) ==
    IF Includes(contentType, HtmlContentType) THEN FALSE
    ELSE PackageKeys(JsonParse(content))

ComposerKeys(parsed) ==
    IF Throws(parsed) THEN FALSE
    ELSE In(<<"r","e","q","u","i","r","e">>, parsed) \/ In(<<"a","u","t","o","l","o","a","d">>, parsed) \/ In(<<"n","a","m","e">>, parsed)

composerJson(content, contentType) ==
    IF Includes(contentType, HtmlContentType) THEN FALSE
    ELSE ComposerKeys(JsonParse(content))

\* file.validator(content, contentType); an entry without a validator is
\* accepted when the response does not look like HTML
Validate(validator, content, contentType) ==
    CASE validator = "envFile"      -> envFile(content, contentType)
      [] validator = "gitConfig"    -> gitConfig(content, contentType)
      [] validator = "gitHead"      -> gitHead(content, contentType)
      [] validator = "sqlFile"      -> sqlFile(content, contentType)
      [] validator = "sourceMap"    -> sourceMap(content, contentType)
      [] validator = "phpInfo"      -> phpInfo(content, contentType)
      [] validator = "logFile"      -> logFile(content, contentType)
      [] validator = "jsonConfig"   -> jsonConfig(content, contentType)
      [] validator = "gitignore"    -> gitignore(content, contentType)
      [] validator = "archiveFile"  -> archiveFile(content, contentType)
      [] validator = "phpConfig"    -> phpConfig(content, contentType)
      [] validator = "packageJson"  -> packageJson(content, contentType)
      [] validator = "composerJson" -> composerJson(content, contentType)
      [] OTHER -> /\ ~Includes(contentType, HtmlContentType)
                  /\ ~LooksLikeHtml(Trim(content))

SENSITIVE_FILES == <<
    [path |-> <<"/",".","e","n","v">>,
     name |-> <<"E","n","v","i","r","o","n","m","e","n","t"," ","f","i","l","e">>,
     severity |-> "critical",
     description |-> "Environment file contains API keys, database passwords, and secrets",
     fix |-> "Block access to .env files in your web server config",
     validator |-> "envFile"],
    [path |-> <<"/",".","e","n","v",".","l","o","c","a","l">>,
     name |-> <<"L","o","c","a","l"," ","e","n","v","i","r","o","n","m","e","n","t"," ","f","i","l","e">>,
     severity |-> "critical",
     description |-> "Local environment file may contain development secrets",
     fix |-> "Block access to .env* files in your web server config",
     validator |-> "envFile"],
    [path |-> <<"/",".","e","n","v",".","p","r","o","d","u","c","t","i","o","n">>,
     name |-> <<"P","r","o","d","u","c","t","i","o","n"," ","e","n","v","i","r","o","n","m","e","n","t"," ","f","i","l","e">>,
     severity |-> "critical",
     description |-> "Production secrets exposed",
     fix |-> "Block access to .env* files in your web server config",
     validator |-> "envFile"],
    [path |-> <<"/",".","g","i","t","/","c","o","n","f","i","g">>,
     name |-> <<"G","i","t"," ","c","o","n","f","i","g">>,
     severity |-> "critical",
     description |-> "Git repository exposed - attackers can download your entire source code",
     fix |-> "Block access to .git directory in your web server or hosting config",
     validator |-> "gitConfig"],
    [path |-> <<"/",".","g","i","t","/","H","E","A","D">>,
     name |-> <<"G","i","t"," ","H","E","A","D">>,
     severity |-> "critical",
     description |-> "Git repository exposed - source code can be reconstructed",
     fix |-> "Block access to .git directory in your web server config",
     validator |-> "gitHead"],
    [path |-> <<"/","b","a","c","k","u","p",".","s","q","l">>,
     name |-> <<"S","Q","L"," ","b","a","c","k","u","p">>,
     severity |-> "critical",
     description |-> "Database backup exposed - contains all your data",
     fix |-> "Remove backup files from web root and never store them publicly",
     validator |-> "sqlFile"],
    [path |-> <<"/","d","a","t","a","b","a","s","e",".","s","q","l">>,
     name |-> <<"D","a","t","a","b","a","s","e"," ","d","u","m","p">>,
     severity |-> "critical",
     description |-> "Database dump exposed",
     fix |-> "Remove database files from web root",
     validator |-> "sqlFile"],
    [path |-> <<"/","d","u","m","p",".","s","q","l">>,
     name |-> <<"D","a","t","a","b","a","s","e"," ","d","u","m","p">>,
     severity |-> "critical",
     description |-> "Database dump exposed",
     fix |-> "Remove database files from web root",
     validator |-> "sqlFile"],
    [path |-> <<"/","d","b",".","s","q","l">>,
     name |-> <<"D","a","t","a","b","a","s","e"," ","f","i","l","e">>,
     severity |-> "critical",
     description |-> "Database file exposed",
     fix |-> "Remove database files from web root",
     validator |-> "sqlFile"],
    [path |-> <<"/","m","a","i","n",".","j","s",".","m","a","p">>,
     name |-> <<"J","a","v","a","S","c","r","i","p","t"," ","s","o","u","r","c","e"," ","m","a","p">>,
     severity |-> "high",
     description |-> "Source maps expose your original source code to anyone",
     fix |-> "Disable source maps in production: set devtool: false in webpack or sourcemap: false in Vite",
     validator |-> "sourceMap"],
    [path |-> <<"/","b","u","n","d","l","e",".","j","s",".","m","a","p">>,
     name |-> <<"B","u","n","d","l","e"," ","s","o","u","r","c","e"," ","m","a","p">>,
     severity |-> "high",
     description |-> "Source maps expose your original source code",
     fix |-> "Disable source maps in production builds",
     validator |-> "sourceMap"],
    [path |-> <<"/","a","p","p",".","j","s",".","m","a","p">>,
     name |-> <<"A","p","p"," ","s","o","u","r","c","e"," ","m","a","p">>,
     severity |-> "high",
     description |-> "Source maps expose your original source code",
     fix |-> "Disable source maps in production builds",
     validator |-> "sourceMap"],
    [path |-> <<"/","_","n","e","x","t","/","s","t","a","t","i","c","/","c","h","u","n","k","s","/","m","a","i","n",".","j","s",".","m","a","p">>,
     name |-> <<"N","e","x","t",".","j","s"," ","s","o","u","r","c","e"," ","m","a","p">>,
     severity |-> "high",
     description |-> "Next.js source maps expose your original source code",
     fix |-> "Set productionBrowserSourceMaps: false in next.config.js",
     validator |-> "sourceMap"],
    [path |-> <<"/","p","h","p","i","n","f","o",".","p","h","p">>,
     name |-> <<"P","H","P"," ","i","n","f","o"," ","p","a","g","e">>,
     severity |-> "high",
     description |-> "PHP info page exposes server configuration and installed modules",
     fix |-> "Remove phpinfo.php from production servers",
     validator |-> "phpInfo"],
    [path |-> <<"/","i","n","f","o",".","p","h","p">>,
     name |-> <<"P","H","P"," ","i","n","f","o"," ","p","a","g","e">>,
     severity |-> "high",
     description |-> "PHP info page exposes server configuration",
     fix |-> "Remove info.php from production servers",
     validator |-> "phpInfo"],
    [path |-> <<"/","d","e","b","u","g",".","l","o","g">>,
     name |-> <<"D","e","b","u","g"," ","l","o","g">>,
     severity |-> "high",
     description |-> "Debug logs may contain sensitive information and stack traces",
     fix |-> "Remove or restrict access to log files",
     validator |-> "logFile"],
    [path |-> <<"/","e","r","r","o","r",".","l","o","g">>,
     name |-> <<"E","r","r","o","r"," ","l","o","g">>,
     severity |-> "medium",
     description |-> "Error logs may expose internal paths and errors",
     fix |-> "Remove or restrict access to log files",
     validator |-> "logFile"],
    [path |-> <<"/","w","p","-","c","o","n","t","e","n","t","/","d","e","b","u","g",".","l","o","g">>,
     name |-> <<"W","o","r","d","P","r","e","s","s"," ","d","e","b","u","g"," ","l","o","g">>,
     severity |-> "high",
     description |-> "WordPress debug log may contain sensitive errors",
     fix |-> "Remove debug log or disable WP_DEBUG_LOG in production",
     validator |-> "logFile"],
    [path |-> <<"/","w","p","-","c","o","n","f","i","g",".","p","h","p">>,
     name |-> <<"W","o","r","d","P","r","e","s","s"," ","c","o","n","f","i","g">>,
     severity |-> "critical",
     description |-> "WordPress configuration contains database credentials",
     fix |-> "Ensure PHP files are processed by your server, not served as plaintext",
     validator |-> "phpConfig"],
    [path |-> <<"/","c","o","n","f","i","g",".","j","s","o","n">>,
     name |-> <<"C","o","n","f","i","g"," ","J","S","O","N">>,
     severity |-> "high",
     description |-> "Configuration file may contain sensitive settings",
     fix |-> "Move config files outside the web root or block access",
     validator |-> "jsonConfig"],
    [path |-> <<"/","p","a","c","k","a","g","e",".","j","s","o","n">>,
     name |-> <<"N","P","M"," ","p","a","c","k","a","g","e"," ","f","i","l","e">>,
     severity |-> "low",
     description |-> "Exposes dependencies which could reveal vulnerabilities to target",
     fix |-> "Consider blocking access to package.json in production",
     validator |-> "packageJson"],
    [path |-> <<"/",".","g","i","t","i","g","n","o","r","e">>,
     name |-> <<"G","i","t"," ","i","g","n","o","r","e"," ","f","i","l","e">>,
     severity |-> "low",
     description |-> "Reveals project structure and what files the developer considers sensitive",
     fix |-> "Block access to dotfiles in your web server config",
     validator |-> "gitignore"]
>>

\* const concurrency = 5
FileConcurrency == 5

\* a declared content-length above which the body is not read
SizeLimit == 50000

-----------------------------------------------------------------------------
(* checkAdminPaths: table, simpleHash, isSpaFallback                       *)

ADMIN_PATHS == <<
    [path |-> <<"/","p","h","p","m","y","a","d","m","i","n">>,
     name |-> <<"p","h","p","M","y","A","d","m","i","n">>,
     description |-> "Database management - should not be public",
     contentMarkers |-> <<
        <<Lit(<<"p","h","p","m","y","a","d","m","i","n">>)>>,
        <<Lit(<<"p","m","a","_">>)>>,
        <<Lit(<<"m","y","s","q","l">>)>>>>],
    [path |-> <<"/","p","h","p","m","y","a","d","m","i","n","/">>,
     name |-> <<"p","h","p","M","y","A","d","m","i","n">>,
     description |-> "Database management tool",
     contentMarkers |-> <<
        <<Lit(<<"p","h","p","m","y","a","d","m","i","n">>)>>,
        <<Lit(<<"p","m","a","_">>)>>>>],
    [path |-> <<"/","a","d","m","i","n","e","r",".","p","h","p">>,
     name |-> <<"A","d","m","i","n","e","r">>,
     description |-> "Database management tool",
     contentMarkers |-> <<
        <<Lit(<<"a","d","m","i","n","e","r">>)>>,
        <<Lit(<<"l","o","g","i","n">>), AnyRun(0), Lit(<<"d","a","t","a","b","a","s","e">>)>>>>],
    [path |-> <<"/","w","p","-","a","d","m","i","n","/","i","n","s","t","a","l","l",".","p","h","p">>,
     name |-> <<"W","o","r","d","P","r","e","s","s"," ","I","n","s","t","a","l","l">>,
     description |-> "WordPress installation script - should not be accessible",
     contentMarkers |-> <<
        <<Lit(<<"w","o","r","d","p","r","e","s","s">>)>>,
        <<Lit(<<"i","n","s","t","a","l","l","a","t","i","o","n">>)>>,
        <<Lit(<<"w","p","-","i","n","s","t","a","l","l">>)>>>>],
    [path |-> <<"/","w","p","-","l","o","g","i","n",".","p","h","p">>,
     name |-> <<"W","o","r","d","P","r","e","s","s"," ","L","o","g","i","n">>,
     description |-> "WordPress login page",
     contentMarkers |-> <<
        <<Lit(<<"w","p","-","l","o","g","i","n">>)>>,
        <<Lit(<<"w","o","r","d","p","r","e","s","s">>)>>,
        <<Lit(<<"l","o","g","i","n">>), AnyRun(0), Lit(<<"f","o","r","m">>)>>>>],
    [path |-> <<"/","_","p","r","o","f","i","l","e","r">>,
     name |-> <<"S","y","m","f","o","n","y"," ","P","r","o","f","i","l","e","r">>,
     description |-> "Symfony debug profiler - exposes app internals",
     contentMarkers |-> <<
        <<Lit(<<"s","y","m","f","o","n","y">>)>>,
        <<Lit(<<"p","r","o","f","i","l","e","r">>)>>,
        <<Lit(<<"d","e","b","u","g">>)>>>>],
    [path |-> <<"/","e","l","m","a","h",".","a","x","d">>,
     name |-> <<"E","L","M","A","H">>,
     description |-> "ASP.NET error log",
     contentMarkers |-> <<
        <<Lit(<<"e","l","m","a","h">>)>>,
        <<Lit(<<"e","r","r","o","r">>), AnyRun(0), Lit(<<"l","o","g">>)>>,
        <<Lit(<<"a","s","p",".","n","e","t">>)>>>>],
    [path |-> <<"/","s","e","r","v","e","r","-","s","t","a","t","u","s">>,
     name |-> <<"A","p","a","c","h","e"," ","S","e","r","v","e","r"," ","S","t","a","t","u","s">>,
     description |-> "Apache status page exposes server information",
     contentMarkers |-> <<
        <<Lit(<<"a","p","a","c","h","e">>)>>,
        <<Lit(<<"s","e","r","v","e","r">>), AnyRun(0), Lit(<<"s","t","a","t","u","s">>)>>,
        <<Lit(<<"r","e","q","u","e","s","t","s">>), AnyRun(0), Lit(<<"b","e","i","n","g">>), AnyRun(0), Lit(<<"p","r","o","c","e","s","s","e","d">>)>>>>],
    [path |-> <<"/","s","e","r","v","e","r","-","i","n","f","o">>,
     name |-> <<"A","p","a","c","h","e"," ","S","e","r","v","e","r"," ","I","n","f","o">>,
     description |-> "Apache info page exposes configuration",
     contentMarkers |-> <<
        <<Lit(<<"a","p","a","c","h","e">>)>>,
        <<Lit(<<"s","e","r","v","e","r">>), AnyRun(0), Lit(<<"i","n","f","o">>)>>,
        <<Lit(<<"m","o","d","u","l","e">>)>>>>],
    [path |-> <<"/","p","h","p","i","n","f","o",".","p","h","p">>,
     name |-> <<"P","H","P"," ","I","n","f","o">>,
     description |-> "PHP configuration exposed",
     contentMarkers |-> <<
        <<Lit(<<"p","h","p"," ","v","e","r","s","i","o","n">>)>>,
        <<Lit(<<"c","o","n","f","i","g","u","r","a","t","i","o","n">>)>>,
        <<Lit(<<"p","h","p",".","i","n","i">>)>>>>],
    [path |-> <<"/","i","n","f","o",".","p","h","p">>,
     name |-> <<"P","H","P"," ","I","n","f","o">>,
     description |-> "PHP configuration exposed",
     contentMarkers |-> <<
        <<Lit(<<"p","h","p"," ","v","e","r","s","i","o","n">>)>>,
        <<Lit(<<"c","o","n","f","i","g","u","r","a","t","i","o","n">>)>>>>]
>>

\* const concurrency = 3
AdminConcurrency == 3

\* str.substring(0, 5000)
SampleLimit == 5000

\* String.prototype.charCodeAt for the characters of the served texts
CharCode ==
    "\t" :> 9 @@ "\n" :> 10 @@ "\r" :> 13 @@ " " :> 32 @@ "!" :> 33 @@ "\"" :> 34 @@
    "#" :> 35 @@ "$" :> 36 @@ "%" :> 37 @@ "&" :> 38 @@ "'" :> 39 @@ "(" :> 40 @@
    ")" :> 41 @@ "*" :> 42 @@ "+" :> 43 @@ "," :> 44 @@ "-" :> 45 @@ "." :> 46 @@
    "/" :> 47 @@ "0" :> 48 @@ "1" :> 49 @@ "2" :> 50 @@ "3" :> 51 @@ "4" :> 52 @@
    "5" :> 53 @@ "6" :> 54 @@ "7" :> 55 @@ "8" :> 56 @@ "9" :> 57 @@ ":" :> 58 @@
    ";" :> 59 @@ "<" :> 60 @@ "=" :> 61 @@ ">" :> 62 @@ "?" :> 63 @@ "@" :> 64 @@
    "A" :> 65 @@ "B" :> 66 @@ "C" :> 67 @@ "D" :> 68 @@ "E" :> 69 @@ "F" :> 70 @@
    "G" :> 71 @@ "H" :> 72 @@ "I" :> 73 @@ "J" :> 74 @@ "K" :> 75 @@ "L" :> 76 @@
    "M" :> 77 @@ "N" :> 78 @@ "O" :> 79 @@ "P" :> 80 @@ "Q" :> 81 @@ "R" :> 82 @@
    "S" :> 83 @@ "T" :> 84 @@ "U" :> 85 @@ "V" :> 86 @@ "W" :> 87 @@ "X" :> 88 @@
    "Y" :> 89 @@ "Z" :> 90 @@ "[" :> 91 @@ "\\" :> 92 @@ "]" :> 93 @@ "^" :> 94 @@
    "_" :> 95 @@ "a" :> 97 @@ "b" :> 98 @@ "c" :> 99 @@ "d" :> 100 @@ "e" :> 101 @@
    "f" :> 102 @@ "g" :> 103 @@ "h" :> 104 @@ "i" :> 105 @@ "j" :> 106 @@ "k" :> 107 @@
    "l" :> 108 @@ "m" :> 109 @@ "n" :> 110 @@ "o" :> 111 @@ "p" :> 112 @@ "q" :> 113 @@
    "r" :> 114 @@ "s" :> 115 @@ "t" :> 116 @@ "u" :> 117 @@ "v" :> 118 @@ "w" :> 119 @@
    "x" :> 120 @@ "y" :> 121 @@ "z" :> 122 @@ "{" :> 123 @@ "|" :> 124 @@ "}" :> 125 @@
    "~" :> 126

\* A 32-bit integer as its two 16-bit halves (the unsigned value is
\* hi * 65536 + lo; it is negative when hi >= 32768).
Half == 65536

\* hash = ((hash << 5) - hash) + char; hash = hash & hash
\* that is 31 * hash + char, cut to 32 bits
RECURSIVE HashLoop(_, _, _, _)
HashLoop(sample, i, hi, lo) ==
    IF i >= Len(sample) \/ hi < 0 \/ lo < 0 THEN [hi |-> hi, lo |-> lo]
    ELSE HashLoop(sample, i + 1,
                  ((31 * hi) + (((31 * lo) + CharCode[sample[i + 1]]) \div Half)) % Half,
                  ((31 * lo) + CharCode[sample[i + 1]]) % Half)

HexDigits == <<"0","1","2","3","4","5","6","7","8","9","a","b","c","d","e","f">>

Hex4(n) == <<HexDigits[(n \div 4096) + 1], HexDigits[((n \div 256) % 16) + 1],
             HexDigits[((n \div 16) % 16) + 1], HexDigits[(n % 16) + 1]>>

RECURSIVE StripZeros(_)
StripZeros(digits) ==
    IF Len(digits) > 1 /\ Head(digits) = "0" THEN StripZeros(Tail(digits)) ELSE digits

\* the halves of the magnitude of a negative value
Negated(hash) ==
    [hi |-> (Half - 1 - hash.hi + (IF hash.lo = 0 THEN 1 ELSE 0)) % Half,
     lo |-> (Half - hash.lo) % Half]

HexOf(hash) == StripZeros(Hex4(hash.hi) \o Hex4(hash.lo))

\* Number.prototype.toString(16) of a 32-bit integer
ToString16(hash) ==
    IF hash.hi >= Half \div 2 THEN <<"-">> \o HexOf(Negated(hash)) ELSE HexOf(hash)

\* the loop over sample[from + 1 .. to] with hash h on entry; a long span
\* is walked as its first half followed by its second half
RECURSIVE HashSpan(_, _, _, _)
HashSpan(sample, from, to, h) ==
    IF h.hi < 0 THEN h
    ELSE IF to - from <= 64 THEN HashLoop(SubSeq(sample, from + 1, to), 0, h.hi, h.lo)
    ELSE HashSpan(sample, (from + to) \div 2, to,
                  HashSpan(sample, from, (from + to) \div 2, h))

HashOf(sample) == ToString16(HashSpan(sample, 0, Len(sample), [hi |-> 0, lo |-> 0]))

simpleHash(str) == HashOf(Substring(str, 0, SampleLimit))

SpaMarkers == <<<<"_","_","N","E","X","T","_","D","A","T","A","_","_">>, <<"_","_","N","U","X","T","_","_">>, <<"d","a","t","a","-","r","e","a","c","t","r","o","o","t">>, <<"n","g","-","a","p","p">>>>

\* Math.abs(contentLength - mainPageLength) / mainPageLength < 0.05
\* (the division by 0 gives Infinity or NaN, which are not below 0.05)
LengthClose(contentLength, mainPageLength) ==
    /\ mainPageLength > 0
    /\ 20 * (IF contentLength > mainPageLength THEN contentLength - mainPageLength
             ELSE mainPageLength - contentLength) < mainPageLength

isSpaFallback(mainPageHash, mainPageLength, content) ==
    IF simpleHash(content) = mainPageHash THEN TRUE
    ELSE IF LengthClose(Len(content), mainPageLength)
    THEN \E a \in 1..Len(SpaMarkers) : Includes(content, SpaMarkers[a])
    ELSE FALSE

\* /phpmyadmin|adminer|mysql/i, /profiler|debug|elmah|server-status|server-info|phpinfo/i
\* and /install/i, on the path in lower case
DatabaseTool == <<OneOf(<<<<"p","h","p","m","y","a","d","m","i","n">>, <<"a","d","m","i","n","e","r">>, <<"m","y","s","q","l">>>>)>>
DebugTool == <<OneOf(<<<<"p","r","o","f","i","l","e","r">>, <<"d","e","b","u","g">>, <<"e","l","m","a","h">>, <<"s","e","r","v","e","r","-","s","t","a","t","u","s">>, <<"s","e","r","v","e","r","-","i","n","f","o">>, <<"p","h","p","i","n","f","o">>>>)>>
InstallScript == <<Lit(<<"i","n","s","t","a","l","l">>)>>

AdminSeverity(path) ==
    IF RegExpTest(DatabaseTool, ToLowerCase(path)) THEN "critical"
    ELSE IF RegExpTest(DebugTool, ToLowerCase(path)) THEN "high"
    ELSE IF RegExpTest(InstallScript, ToLowerCase(path)) THEN "high"
    ELSE "medium"

AdminFix(path) ==
    IF RegExpTest(DatabaseTool, ToLowerCase(path))
    THEN "Remove or restrict access to database tools. Never expose them to the public internet."
    ELSE IF RegExpTest(DebugTool, ToLowerCase(path))
    THEN "Remove debug endpoints from production. They expose sensitive server information."
    ELSE IF RegExpTest(InstallScript, ToLowerCase(path))
    THEN "Remove installation scripts after setup is complete."
    ELSE "Restrict access to admin paths by IP or remove from public access"

-----------------------------------------------------------------------------
(* checkExposedFiles and checkAdminPaths: what the server serves           *)

\* What a request is answered with: the fetch rejects (a network error, or
\* the abort by the timer), or a response arrives with its status, its
\* content-type and content-length headers (<<>> when the header is absent)
\* and its body; read = FALSE when reading the body fails.
Response(status, contentType, contentLength, body) ==
    [kind |-> "response", status |-> status, contentType |-> contentType,
     contentLength |-> contentLength, body |-> body, read |-> TRUE]

NetworkError == [kind |-> "error"]
TimedOut     == [kind |-> "timeout"]
NoHeader     == <<>>

Page(body, contentType) == Response(200, contentType, NoHeader, body)
BrokenBody(contentType) == [Page(<<>>, contentType) EXCEPT !.read = FALSE]
NotFound  == Response(404, <<"t","e","x","t","/","h","t","m","l">>, NoHeader, <<"N","o","t"," ","F","o","u","n","d">>)
Forbidden == Response(403, <<"t","e","x","t","/","h","t","m","l">>, NoHeader, <<"F","o","r","b","i","d","d","e","n">>)
Unavailable == Response(503, NoHeader, NoHeader, <<>>)

TextHtml    == <<"t","e","x","t","/","h","t","m","l",";"," ","c","h","a","r","s","e","t","=","u","t","f","-","8">>
TextPlain   == <<"t","e","x","t","/","p","l","a","i","n">>
AppJson     == <<"a","p","p","l","i","c","a","t","i","o","n","/","j","s","o","n">>

HomePage       == <<"<","!","D","O","C","T","Y","P","E"," ","h","t","m","l",">","<","h","t","m","l",">","<","b","o","d","y",">","H","o","m","e","<","/","b","o","d","y",">","<","/","h","t","m","l",">">>
PhpHomePage    == <<"<","!","D","O","C","T","Y","P","E"," ","h","t","m","l",">","<","h","t","m","l",">","<","b","o","d","y",">","P","H","P"," ","V","e","r","s","i","o","n"," ","8",":"," ","C","o","n","f","i","g","u","r","a","t","i","o","n"," ","t","i","p","s","<","/","b","o","d","y",">","<","/","h","t","m","l",">">>
ScriptHomePage == <<"<","!","d","o","c","t","y","p","e"," ","h","t","m","l",">","\n","<","s","c","r","i","p","t",">","\n","A","P","I","_","U","R","L","=","\"","/","v","1","\"","\n","<","/","s","c","r","i","p","t",">">>

EnvText        == <<"P","O","R","T","=","8","0","\n","A","P","I","_","K","E","Y","=","a","b","c","1","2","3","\n">>
HtmlEnvPage    == <<"<","!","D","O","C","T","Y","P","E"," ","h","t","m","l",">","\n","<","p","r","e",">","\n","A","P","I","_","K","E","Y","=","a","b","c","1","2","3","\n","<","/","p","r","e",">">>
PaddedEnvPage  == <<"\n","<","h","t","m","l",">","\n","A","P","I","_","K","E","Y","=","a","b","c","1","2","3","\n","<","/","h","t","m","l",">">>

GitConfigText   == <<"[","c","o","r","e","]","\n","\t","b","a","r","e"," ","="," ","f","a","l","s","e","\n">>
GitHeadText     == <<"r","e","f",":"," ","r","e","f","s","/","h","e","a","d","s","/","m","a","i","n","\n">>
SqlText         == <<"-","-"," ","M","y","S","Q","L"," ","d","u","m","p"," ","1","0",".","1","3","\n","C","R","E","A","T","E"," ","T","A","B","L","E"," ","t"," ","(","i","d"," ","I","N","T",")",";","\n">>
SourceMapText   == <<"{","\"","v","e","r","s","i","o","n","\"",":","3",",","\"","s","o","u","r","c","e","s","\"",":","[","\"","a",".","j","s","\"","]",",","\"","m","a","p","p","i","n","g","s","\"",":","\"","A","A","A","A","\"","}">>
PhpInfoPage     == <<"<","h","t","m","l",">","<","h","1",">","P","H","P"," ","V","e","r","s","i","o","n"," ","8",".","1","<","/","h","1",">","<","h","2",">","C","o","n","f","i","g","u","r","a","t","i","o","n","<","/","h","2",">","<","/","h","t","m","l",">">>
LogText         == <<"2","0","2","4","-","0","1","-","1","5"," ","1","0",":","0","0",":","0","0"," ","E","R","R","O","R"," ","f","a","i","l","e","d","\n">>
PhpConfigText   == <<"<","?","p","h","p"," ","d","e","f","i","n","e","(","'","D","B","_","N","A","M","E","'",","," ","'","w","p","'",")",";">>
ConfigJsonText  == <<"{","\"","d","e","b","u","g","\"",":"," ","t","r","u","e",","," ","\"","p","o","r","t","\"",":"," ","8","0","8","0","}">>
BrokenJsonText  == <<"{","\"","d","e","b","u","g","\"",":"," ","t","r","u">>
PackageJsonText == <<"{","\"","n","a","m","e","\"",":","\"","a","p","p","\"",",","\"","v","e","r","s","i","o","n","\"",":","\"","1",".","0",".","0","\"","}">>
GitignoreText   == <<"n","o","d","e","_","m","o","d","u","l","e","s","\n","*",".","l","o","g","\n">>

EnvPath == <<"/",".","e","n","v">>

\* A site: its home page, the answer to a path it knows nothing special
\* about, and the answers to the other paths.
Site(home, default, special) == [home |-> home, default |-> default, special |-> special]

Answer(site, path) ==
    IF path \in DOMAIN site.special THEN site.special[path] ELSE site.default

\* sites that answer every path with their home page
ShellSites ==
    {Site(home, Response(200, contentType, contentLength, home), <<>>) :
        home \in {HomePage, PhpHomePage, ScriptHomePage},
        contentType \in {TextHtml, NoHeader},
        contentLength \in {NoHeader, <<"1","2","0">>, <<"6","0","0","0","0">>}}

\* sites where only /.env exists
EnvSites ==
    {Site(HomePage, NotFound, EnvPath :> Response(200, contentType, contentLength, body)) :
        body \in {EnvText, HomePage, HtmlEnvPage, PaddedEnvPage},
        contentType \in {TextPlain, TextHtml, NoHeader},
        contentLength \in {NoHeader, <<"6","0","0","0","0">>}}

\* a site that serves its files
LeakySite ==
    Site(HomePage, NotFound,
         EnvPath :> Page(EnvText, TextPlain)
      @@ <<"/",".","e","n","v",".","l","o","c","a","l">> :> Page(EnvText, TextHtml)
      @@ <<"/",".","g","i","t","/","c","o","n","f","i","g">> :> Page(GitConfigText, NoHeader)
      @@ <<"/",".","g","i","t","/","H","E","A","D">> :> Page(GitHeadText, TextPlain)
      @@ <<"/","b","a","c","k","u","p",".","s","q","l">> :> Page(SqlText, NoHeader)
      @@ <<"/","d","u","m","p",".","s","q","l">> :> Response(200, <<"a","p","p","l","i","c","a","t","i","o","n","/","s","q","l">>, <<"7","3","4","0","0","3","2">>, <<>>)
      @@ <<"/","m","a","i","n",".","j","s",".","m","a","p">> :> Page(SourceMapText, AppJson)
      @@ <<"/","b","u","n","d","l","e",".","j","s",".","m","a","p">> :> Page(PackageJsonText, AppJson)
      @@ <<"/","p","h","p","i","n","f","o",".","p","h","p">> :> Page(PhpInfoPage, TextHtml)
      @@ <<"/","d","e","b","u","g",".","l","o","g">> :> Page(LogText, TextPlain)
      @@ <<"/","w","p","-","c","o","n","f","i","g",".","p","h","p">> :> Page(PhpConfigText, TextPlain)
      @@ <<"/","c","o","n","f","i","g",".","j","s","o","n">> :> Page(ConfigJsonText, AppJson)
      @@ <<"/","p","a","c","k","a","g","e",".","j","s","o","n">> :> Page(PackageJsonText, AppJson)
      @@ <<"/",".","g","i","t","i","g","n","o","r","e">> :> Page(GitignoreText, TextPlain))

\* a site that serves two of its files and refuses, fails or answers with
\* something else for the other paths
LockedSite ==
    Site(HomePage, Forbidden,
         EnvPath :> NetworkError
      @@ <<"/",".","e","n","v",".","p","r","o","d","u","c","t","i","o","n">> :> TimedOut
      @@ <<"/",".","g","i","t","/","c","o","n","f","i","g">> :> Page(HomePage, TextHtml)
      @@ <<"/",".","g","i","t","/","H","E","A","D">> :> BrokenBody(TextPlain)
      @@ <<"/","d","a","t","a","b","a","s","e",".","s","q","l">> :> Unavailable
      @@ <<"/","d","b",".","s","q","l">> :> Response(200, TextHtml, <<"6","0","0","0","0">>, HomePage)
      @@ <<"/","a","p","p",".","j","s",".","m","a","p">> :> Page(BrokenJsonText, AppJson)
      @@ <<"/","i","n","f","o",".","p","h","p">> :> Page(HomePage, NoHeader)
      @@ <<"/","d","e","b","u","g",".","l","o","g">> :> Page(LogText, TextPlain)
      @@ <<"/","e","r","r","o","r",".","l","o","g">> :> Page(LogText, TextHtml)
      @@ <<"/","w","p","-","c","o","n","f","i","g",".","p","h","p">> :> Page(PhpConfigText, TextHtml)
      @@ <<"/","c","o","n","f","i","g",".","j","s","o","n">> :> Page(BrokenJsonText, AppJson)
      @@ <<"/","p","a","c","k","a","g","e",".","j","s","o","n">> :> Page(ConfigJsonText, AppJson)
      @@ <<"/",".","g","i","t","i","g","n","o","r","e">> :> Response(301, NoHeader, NoHeader, <<>>))

FileSites == ShellSites \cup EnvSites \cup {LeakySite, LockedSite}

WpHomePage   == <<"<","h","t","m","l",">","<","b","o","d","y",">","W","e","l","c","o","m","e"," ","t","o"," ","W","o","r","d","P","r","e","s","s"," ","l","o","g","i","n"," ","f","o","r","m","<","/","b","o","d","y",">","<","/","h","t","m","l",">">>
SpaHomePage  == <<"<","h","t","m","l",">","<","d","i","v"," ","i","d","=","\"","_","_","N","E","X","T","_","D","A","T","A","_","_","\"",">","m","y","s","q","l"," ","a","p","a","c","h","e"," ","1","<","/","d","i","v",">","<","/","h","t","m","l",">">>
SpaRoutePage == <<"<","h","t","m","l",">","<","d","i","v"," ","i","d","=","\"","_","_","N","E","X","T","_","D","A","T","A","_","_","\"",">","m","y","s","q","l"," ","a","p","a","c","h","e"," ","2","2","<","/","d","i","v",">","<","/","h","t","m","l",">">>
PmaPage      == <<"<","t","i","t","l","e",">","p","h","p","M","y","A","d","m","i","n","<","/","t","i","t","l","e",">">>
StatusPage   == <<"A","p","a","c","h","e"," ","S","e","r","v","e","r"," ","S","t","a","t","u","s"," ","f","o","r"," ","t",".","i","o">>

\* a site with the answer to the request for its base URL
AdminSite(home, root, default, special) ==
    [home |-> home, root |-> root, default |-> default, special |-> special]

AdminSites == {
    AdminSite(HomePage, Page(HomePage, TextHtml), NotFound, <<>>),
    AdminSite(HomePage, Page(HomePage, TextHtml), Page(HomePage, TextHtml), <<>>),
    AdminSite(WpHomePage, Page(WpHomePage, TextHtml), Page(WpHomePage, TextHtml), <<>>),
    AdminSite(WpHomePage, NetworkError, Page(WpHomePage, TextHtml), <<>>),
    AdminSite(WpHomePage, Unavailable, Page(WpHomePage, TextHtml), <<>>),
    AdminSite(WpHomePage, BrokenBody(TextHtml), Page(WpHomePage, TextHtml), <<>>),
    AdminSite(SpaHomePage, Page(SpaHomePage, TextHtml), Page(SpaRoutePage, TextHtml), <<>>),
    AdminSite(<<>>, Page(<<>>, TextHtml), Page(<<>>, TextHtml), <<>>),
    AdminSite(HomePage, Page(HomePage, TextHtml), NotFound,
              <<"/","p","h","p","m","y","a","d","m","i","n">> :> Page(PmaPage, TextHtml)
           @@ <<"/","a","d","m","i","n","e","r",".","p","h","p">> :> BrokenBody(TextHtml)
           @@ <<"/","w","p","-","a","d","m","i","n","/","i","n","s","t","a","l","l",".","p","h","p">> :> Page(WpHomePage, TextHtml)
           @@ <<"/","w","p","-","l","o","g","i","n",".","p","h","p">> :> Page(HomePage, TextHtml)
           @@ <<"/","_","p","r","o","f","i","l","e","r">> :> TimedOut
           @@ <<"/","e","l","m","a","h",".","a","x","d">> :> Forbidden
           @@ <<"/","s","e","r","v","e","r","-","s","t","a","t","u","s">> :> Page(StatusPage, TextPlain)
           @@ <<"/","p","h","p","i","n","f","o",".","p","h","p">> :> NetworkError
           @@ <<"/","i","n","f","o",".","p","h","p">> :> Page(PhpInfoPage, TextHtml)) }

-----------------------------------------------------------------------------
(* checkExposedFiles and checkAdminPaths: the probes and the batches       *)

\* response.headers.get(name) || fallback
HeaderOr(value, fallback) == IF value = <<>> THEN fallback ELSE value

\* response.ok
Ok(status) == status \in 200..299

\* f with f[key] set to value
Put(f, key, value) == [x \in DOMAIN f \cup {key} |-> IF x = key THEN value ELSE f[x]]

\* ---- one probe of checkExposedFiles ----
FileResult(status, accessible, validated, contentType) ==
    [status |-> status, accessible |-> accessible, validated |-> validated,
     contentType |-> contentType]

\* the catch block
FileFailed == FileResult(0, FALSE, FALSE, <<>>)

\* contentLength > 50000: the body is not read
LargeFile(status, contentType, isHtml) == FileResult(status, ~isHtml, ~isHtml, contentType)

FileValidated(status, contentType, validated) ==
    FileResult(status, validated, validated, contentType)

FileRead(file, status, contentType, answer) ==
    IF GreaterThan(parseInt(HeaderOr(answer.contentLength, <<"0">>)), SizeLimit)
    THEN LargeFile(status, contentType, Includes(contentType, HtmlContentType))
    ELSE IF ~answer.read THEN FileFailed
    ELSE FileValidated(status, contentType, Validate(file.validator, answer.body, contentType))

FileProbe(file, answer) ==
    IF answer.kind # "response" THEN FileFailed
    ELSE IF answer.status # 200 THEN FileResult(answer.status, FALSE, FALSE, <<>>)
    ELSE FileRead(file, answer.status, HeaderOr(answer.contentType, <<>>), answer)

\* ---- one probe of checkAdminPaths ----
AdminResult(status, accessible, validated) ==
    [status |-> status, accessible |-> accessible, validated |-> validated]

AdminFailed == AdminResult(0, FALSE, FALSE)

\* adminPath.contentMarkers.some(marker => marker.test(content)), the
\* markers have the i flag
MarkersFound(contentMarkers, lower) ==
    \E a \in 1..Len(contentMarkers) : RegExpTest(contentMarkers[a], lower)

AdminValidated(status, validated) == AdminResult(status, validated, validated)

AdminProbe(adminPath, answer, mainHash, mainLength) ==
    IF answer.kind # "response" THEN AdminFailed
    ELSE IF answer.status # 200 THEN AdminResult(answer.status, FALSE, FALSE)
    ELSE IF ~answer.read THEN AdminFailed
    ELSE IF mainHash # <<>> /\ isSpaFallback(mainHash, mainLength, answer.body)
    THEN AdminResult(answer.status, FALSE, FALSE)
    ELSE AdminValidated(answer.status,
                        MarkersFound(adminPath.contentMarkers, ToLowerCase(answer.body)))

\* ---- the loop over the results of a batch ----
Detail(r) == [status |-> r.status, accessible |-> r.accessible, validated |-> r.validated]

FileIssue(file) ==
    [id |-> <<"e","x","p","o","s","e","d","-">> \o ReplaceNonAlnum(file.path),
     severity |-> file.severity,
     category |-> "Exposed Files",
     title |-> file.name \o <<" ","a","c","c","e","s","s","i","b","l","e",":"," ">> \o file.path,
     description |-> file.description,
     fix |-> file.fix]

AdminIssue(adminPath) ==
    [id |-> <<"a","d","m","i","n","-">> \o ReplaceNonAlnum(adminPath.path),
     severity |-> AdminSeverity(adminPath.path),
     category |-> "Admin Paths",
     title |-> adminPath.name \o <<" ","f","o","u","n","d",":"," ">> \o adminPath.path,
     description |-> adminPath.description,
     fix |-> AdminFix(adminPath.path)]

\* a variant that reports every entry answered with status 200
PushedOnStatus(p, path, r, issue) ==
    [p EXCEPT !.details = Put(p.details, path, Detail(r)),
              !.issues = IF r.status = 200 THEN Append(p.issues, issue) ELSE p.issues]

\* details[path] = {...}; if (result.accessible && result.validated) issues.push
Pushed(p, path, r, issue) ==
    [p EXCEPT !.details = Put(p.details, path, Detail(r)),
              !.issues = IF r.accessible /\ r.validated
                         THEN Append(p.issues, issue) ELSE p.issues]

PushedEntry(p, i, r) ==
    IF p.detector = "files"
    THEN Pushed(p, SENSITIVE_FILES[i].path, r, FileIssue(SENSITIVE_FILES[i]))
    ELSE Pushed(p, ADMIN_PATHS[i].path, r, AdminIssue(ADMIN_PATHS[i]))

RECURSIVE AggregatedBackwards(_, _, _)
\* a variant that walks the results of the chunk from the last to the first
AggregatedBackwards(p, i, last) ==
    IF i > last THEN p
    ELSE AggregatedBackwards(PushedEntry(p, last, p.results[last]), i, last - 1)

RECURSIVE Aggregated(_, _, _)
Aggregated(p, i, last) ==
    IF i > last THEN p ELSE Aggregated(PushedEntry(p, i, p.results[i]), i + 1, last)

\* ---- the calls and the batches ----
TableSize(detector) ==
    IF detector = "files" THEN Len(SENSITIVE_FILES) ELSE Len(ADMIN_PATHS)

Concurrency(detector) ==
    IF detector = "files" THEN FileConcurrency ELSE AdminConcurrency

\* a variant without chunks: the whole table is one chunk
ChunkLastWhole(detector, from) == TableSize(detector)

\* chunks[..]: the entries from + 1 .. from + concurrency of the table
ChunkLast(detector, from) == Min(from + Concurrency(detector), TableSize(detector))

\* Promise.all(chunk.map(...)): every request of the chunk is sent
StartChunk(p, from) ==
    [p EXCEPT !.pc = "chunk", !.from = from,
              !.pending = (from + 1)..ChunkLast(p.detector, from),
              !.results = <<>>,
              !.requests = p.requests
                  \o [k \in 1..(ChunkLast(p.detector, from) - from) |-> from + k]]

ProbeCall(detector, site, mainPageContent) ==
    [pc |-> "call", detector |-> detector, site |-> site,
     mainPageContent |-> mainPageContent, mainHash |-> <<>>, mainLength |-> 0,
     from |-> 0, pending |-> {}, results |-> <<>>, requests |-> <<>>,
     issues |-> <<>>, details |-> <<>>, result |-> <<>>]

ProbeReturn(p, name) ==
    [p EXCEPT !.pc = "done",
              !.result = [name |-> name, passed |-> p.issues = <<>>,
                          issues |-> p.issues, details |-> p.details]]

\* after the loop over the results: the next chunk, or the return
ChunkDone(p) ==
    IF ChunkLast(p.detector, p.from) < TableSize(p.detector)
    THEN StartChunk(p, p.from + Concurrency(p.detector))
    ELSE ProbeReturn(p, IF p.detector = "files" THEN "Exposed Files" ELSE "Admin Paths")

\* a variant that pushes the finding of a request as soon as it has its result
ProbeSettledPushesAtOnce(p, i, r) ==
    IF p.pending = {i}
    THEN ChunkDone(PushedEntry([p EXCEPT !.pending = {}, !.results = Put(p.results, i, r)], i, r))
    ELSE PushedEntry([p EXCEPT !.pending = p.pending \ {i}, !.results = Put(p.results, i, r)], i, r)

\* Promise.all resolves when the last request of the chunk has its result
ProbeSettled(p, i, r) ==
    IF p.pending = {i}
    THEN ChunkDone(Aggregated([p EXCEPT !.pending = {}, !.results = Put(p.results, i, r)],
                              p.from + 1, ChunkLast(p.detector, p.from)))
    ELSE [p EXCEPT !.pending = p.pending \ {i}, !.results = Put(p.results, i, r)]

FilesCall(site) == StartChunk(ProbeCall("files", site, <<>>), 0)

WithMain(p, mainContent) ==
    [p EXCEPT !.mainHash = simpleHash(mainContent), !.mainLength = Len(mainContent)]

\* mainPageContent || '': without it the base URL is fetched first
AdminCall(site, mainPageContent) ==
    IF mainPageContent = <<>>
    THEN [ProbeCall("admin", site, mainPageContent) EXCEPT !.pc = "main"]
    ELSE StartChunk(WithMain(ProbeCall("admin", site, mainPageContent), mainPageContent), 0)

\* the fetch of the base URL settles
MainSettled(p, answer) ==
    IF answer.kind = "response" /\ Ok(answer.status) /\ answer.read
    THEN StartChunk(WithMain(p, answer.body), 0)
    ELSE StartChunk(p, 0)

FileSettle(i) ==
    /\ probe.pc = "chunk"
    /\ probe.detector = "files"
    /\ i \in probe.pending
    /\ probe' = ProbeSettled(probe, i,
                    FileProbe(SENSITIVE_FILES[i], Answer(probe.site, SENSITIVE_FILES[i].path)))
    /\ UNCHANGED <<dns, keys, tko, scan, net, fcall>>

AdminMainSettle ==
    /\ probe.pc = "main"
    /\ probe' = MainSettled(probe, probe.site.root)
    /\ UNCHANGED <<dns, keys, tko, scan, net, fcall>>

AdminSettle(i) ==
    /\ probe.pc = "chunk"
    /\ probe.detector = "admin"
    /\ i \in probe.pending
    /\ probe' = ProbeSettled(probe, i,
                    AdminProbe(ADMIN_PATHS[i], Answer(probe.site, ADMIN_PATHS[i].path),
                               probe.mainHash, probe.mainLength))
    /\ UNCHANGED <<dns, keys, tko, scan, net, fcall>>

InitProbe ==
    /\ probe \in {FilesCall(site) : site \in FileSites}
           \cup {AdminCall(site, mainPageContent) :
                    site \in AdminSites, mainPageContent \in {<<>>, HomePage, WpHomePage}}
    /\ dns = Idle /\ keys = Idle /\ tko = Idle /\ scan = Idle /\ net = Idle /\ fcall = Idle

NextProbe ==
    \/ \E i \in 1..Len(SENSITIVE_FILES) : FileSettle(i)
    \/ AdminMainSettle
    \/ \E i \in 1..Len(ADMIN_PATHS) : AdminSettle(i)

SpecProbe == InitProbe /\ [][NextProbe]_vars

-----------------------------------------------------------------------------
(* checkExposedFiles and checkAdminPaths: properties                       *)

Returned(detector) == probe.pc = "done" /\ probe.detector = detector

\* the server answered the path with a response of status 200
Answered200(site, path) ==
    Answer(site, path).kind = "response" /\ Answer(site, path).status = 200

\* every sensitive-file path is answered 200 with the home page of the site
ServesShell(site) ==
    \A i \in 1..Len(SENSITIVE_FILES) :
        /\ Answered200(site, SENSITIVE_FILES[i].path)
        /\ Answer(site, SENSITIVE_FILES[i].path).read
        /\ Answer(site, SENSITIVE_FILES[i].path).body = site.home

\* C2: when the server answers 200 with the home page of the site for every
\* sensitive-file path, whatever the home page, the content-type and the
\* content-length are, checkExposedFiles returns no finding: issues is empty
\* and passed is true.
C2_ShellYieldsNoFindings ==
    (Returned("files") /\ ServesShell(probe.site))
        => (probe.result.issues = <<>> /\ probe.result.passed)

\* the path and the issue id of the entry i of the table of a detector
PathOf(detector, i) ==
    IF detector = "files" THEN SENSITIVE_FILES[i].path ELSE ADMIN_PATHS[i].path

IdOf(detector, i) ==
    (IF detector = "files" THEN <<"e","x","p","o","s","e","d","-">> ELSE <<"a","d","m","i","n","-">>) \o ReplaceNonAlnum(PathOf(detector, i))

EntriesOf(detector, issue) == {i \in 1..TableSize(detector) : IdOf(detector, i) = issue.id}

RequestsOf(p, i) == {k \in 1..Len(p.requests) : p.requests[k] = i}

\* the entry was probed once, answered 200, and its details say accessible
\* and validated
ValidatedEntry(p, i) ==
    /\ Cardinality(RequestsOf(p, i)) = 1
    /\ Answered200(p.site, PathOf(p.detector, i))
    /\ PathOf(p.detector, i) \in DOMAIN p.result.details
    /\ p.result.details[PathOf(p.detector, i)].status = 200
    /\ p.result.details[PathOf(p.detector, i)].accessible
    /\ p.result.details[PathOf(p.detector, i)].validated

FindingsOf(p, i) == {j \in 1..Len(p.result.issues) : p.result.issues[j].id = IdOf(p.detector, i)}

\* C3: in every CheckResult returned by checkExposedFiles or checkAdminPaths,
\* each finding belongs to exactly one table entry, whose single probe was
\* answered with status 200 and whose details say accessible and validated;
\* an entry whose probe got another status, timed out, threw or failed
\* validation has no finding; and there are as many findings as details
\* entries with validated = true.
C3_FindingsAreValidated ==
    probe.pc = "done" =>
        /\ \A j \in 1..Len(probe.result.issues) :
            /\ Cardinality(EntriesOf(probe.detector, probe.result.issues[j])) = 1
            /\ \A i \in EntriesOf(probe.detector, probe.result.issues[j]) :
                    ValidatedEntry(probe, i) /\ FindingsOf(probe, i) = {j}
        /\ \A i \in 1..TableSize(probe.detector) :
            (\/ ~Answered200(probe.site, PathOf(probe.detector, i))
             \/ ~probe.result.details[PathOf(probe.detector, i)].validated)
                => FindingsOf(probe, i) = {}
        /\ Len(probe.result.issues)
             = Cardinality({path \in DOMAIN probe.result.details :
                                probe.result.details[path].validated})

\* a returned result of checkExposedFiles with two findings, an entry whose
\* request failed, an entry answered with another status and an entry
\* answered 200 whose content failed validation
C3_Witness ==
    /\ Returned("files")
    /\ Len(probe.result.issues) >= 2
    /\ \E path \in DOMAIN probe.result.details : probe.result.details[path].status = 0
    /\ \E path \in DOMAIN probe.result.details : probe.result.details[path].status = 403
    /\ \E path \in DOMAIN probe.result.details :
            /\ probe.result.details[path].status = 200
            /\ ~probe.result.details[path].validated

\* only /.env is answered with status 200
OnlyEnvAnswers(site) ==
    \A i \in 1..Len(SENSITIVE_FILES) :
        Answered200(site, SENSITIVE_FILES[i].path) <=> (SENSITIVE_FILES[i].path = EnvPath)

ApiKeyLine == <<"A","P","I","_","K","E","Y","=","a","b","c","1","2","3">>

\* the text has the line
HasLine(text, line) ==
    \E pos \in 0..Len(text) :
        /\ MatchesAt(text, line, pos)
        /\ (pos = 0 \/ text[pos] = "\n")
        /\ (pos + Len(line) = Len(text) \/ text[pos + Len(line) + 1] = "\n")

EnvFindings(p) == {j \in 1..Len(p.result.issues) : p.result.issues[j].id = IdOf("files", 1)}

\* The statement with HTML read as in its parenthesis: content-type
\* text/html, or a body starting with <!DOCTYPE or <html.
EnvHtml(answer) ==
    \/ Includes(answer.contentType, HtmlContentType)
    \/ StartsWith(answer.body, <<"<","!","D","O","C","T","Y","P","E">>)
    \/ StartsWith(answer.body, <<"<","h","t","m","l">>)

EnvDetectedAsStated(p, answer) ==
    /\ (/\ OnlyEnvAnswers(p.site)
        /\ answer.read
        /\ ~EnvHtml(answer)
        /\ HasLine(answer.body, ApiKeyLine))
            => (/\ Len(p.result.issues) = 1
                /\ EnvFindings(p) = {1}
                /\ p.result.issues[1].severity = SENSITIVE_FILES[1].severity
                /\ p.result.issues[1].severity = "critical")
    /\ (Answered200(p.site, EnvPath) /\ EnvHtml(answer)) => EnvFindings(p) = {}

\* C4 as stated: when only /.env answers 200 with a non-HTML body that has the
\* line API_KEY=abc123, checkExposedFiles returns exactly one finding, of
\* severity critical; when /.env answers 200 with HTML (content-type
\* text/html, or a body starting with <!DOCTYPE or <html) it returns no
\* finding for /.env.
C4_EnvDetectionAsStated ==
    Returned("files") => EnvDetectedAsStated(probe, Answer(probe.site, EnvPath))

\* the response declares a content-length above the limit
DeclaredLarge(answer) ==
    GreaterThan(parseInt(HeaderOr(answer.contentLength, <<"0">>)), SizeLimit)

EnvDetected(p, answer) ==
    /\ (/\ OnlyEnvAnswers(p.site)
        /\ answer.read
        /\ ~Includes(answer.contentType, HtmlContentType)
        /\ ~LooksLikeHtml(Trim(answer.body))
        /\ HasLine(answer.body, ApiKeyLine))
            => (/\ Len(p.result.issues) = 1
                /\ EnvFindings(p) = {1}
                /\ p.result.issues[1].severity = SENSITIVE_FILES[1].severity
                /\ p.result.issues[1].severity = "critical")
    /\ (/\ Answered200(p.site, EnvPath)
        /\ \/ Includes(answer.contentType, HtmlContentType)
           \/ (~DeclaredLarge(answer) /\ LooksLikeHtml(Trim(answer.body))))
            => EnvFindings(p) = {}

\* C4 (amended): when only /.env answers 200, with a content-type that is not
\* text/html and a body that, trimmed, does not start with <!DOCTYPE or <html
\* and has the line API_KEY=abc123, checkExposedFiles returns exactly one
\* finding, of severity critical; when /.env answers 200 with content-type
\* text/html, or with a declared content-length of at most 50000 and a body
\* that, trimmed, starts with <!DOCTYPE or <html, it returns no finding for
\* /.env.
C4_EnvDetection ==
    Returned("files") => EnvDetected(probe, Answer(probe.site, EnvPath))

\* only /.env answered, as text/plain with the line API_KEY=abc123, and the
\* returned result has its one finding
C4_Witness ==
    /\ Returned("files")
    /\ OnlyEnvAnswers(probe.site)
    /\ Answer(probe.site, EnvPath).contentType = TextPlain
    /\ Answer(probe.site, EnvPath).body = EnvText
    /\ ~DeclaredLarge(Answer(probe.site, EnvPath))
    /\ Len(probe.result.issues) = 1

\* ---------------------------------------------------------------------
\* scanUrl (src/unnamed/part_007:44-242): the main page fetch, the five
\* checks of the main page awaited one after the other, the detectors
\* started together and awaited with Promise.all, the summary.
\* A detector is seen from scanUrl as the promise its call returns: the
\* promise is fulfilled with a CheckResult or it is rejected.
\* ---------------------------------------------------------------------

Undefined == "undefined"
\* let mainHeaders: Headers | null
Null == [kind |-> "null"]
Headers(contentType) == [kind |-> "headers", contentType |-> contentType]

\* interface CheckResult { name, passed, issues, details? }
CheckResult(name, passed, issues, details) ==
    [name |-> name, passed |-> passed, issues |-> issues, details |-> details]

\* a variant that gives the literal another name
SkippedUnnamed(name, passed) == CheckResult("Skipped", passed, <<>>, Undefined)

\* checks.push({ name, passed, issues: [] }): the literal pushed in place of
\* a check of the main page that is not called
Skipped(name, passed) == CheckResult(name, passed, <<>>, Undefined)

\* Steps 2 to 6: the detector called, and the literal pushed when it is not
MainChecks == <<
    [fn |-> "checkSecurityHeaders", skipped |-> Skipped("Security Headers", FALSE)],
    [fn |-> "checkCookies",         skipped |-> Skipped("Cookie Security", TRUE)],
    [fn |-> "checkCORS",            skipped |-> Skipped("CORS Configuration", TRUE)],
    [fn |-> "checkServerInfo",      skipped |-> Skipped("Server Information", TRUE)],
    [fn |-> "checkTechStack",       skipped |-> Skipped("Technology Stack", TRUE)] >>

\* Steps 7 to 13: parallelChecks.push(...), in push order
ParallelChecks(outreach, skipAdminPaths) ==
    <<"checkSSL", "checkDnsSecurity", "checkApiKeys", "checkClientSidePermissions", "checkExposedFiles">>
    \o (IF ~outreach /\ ~skipAdminPaths THEN <<"checkAdminPaths">> ELSE <<>>)
    \o <<"checkRobots">>

\* ---- what the detectors report (inputs of scanUrl) ----
Issue(id, severity) == [id |-> id, severity |-> severity]

\* the name each detector gives its result, one issue it can report, and
\* the value of passed it computes when that issue is the only one
\* (checkTechStack reports no issue; checkRobots passes with a low issue)
Finding ==
    [checkSecurityHeaders |-> [name |-> "Security Headers", passed |-> FALSE,
                               issues |-> <<Issue("missing-content-security-policy", "medium")>>],
     checkCookies |-> [name |-> "Cookie Security", passed |-> FALSE,
                       issues |-> <<Issue("cookie-no-secure-sid", "high")>>],
     checkCORS |-> [name |-> "CORS Configuration", passed |-> FALSE,
                    issues |-> <<Issue("cors-wildcard-credentials", "critical")>>],
     checkServerInfo |-> [name |-> "Server Information", passed |-> FALSE,
                          issues |-> <<Issue("server-x-powered-by", "medium")>>],
     checkTechStack |-> [name |-> "Technology Stack", passed |-> TRUE, issues |-> <<>>],
     checkSSL |-> [name |-> "SSL/TLS", passed |-> FALSE,
                   issues |-> <<Issue("ssl-expiring-soon", "high")>>],
     checkDnsSecurity |-> [name |-> "Email Security (DNS)", passed |-> FALSE,
                           issues |-> <<Issue("dns-no-spf", "medium"), Issue("dns-no-dmarc", "medium")>>],
     checkApiKeys |-> [name |-> "API Key Exposure", passed |-> FALSE,
                       issues |-> <<Issue("apikey-aws-AKIAIOSF", "critical")>>],
     checkClientSidePermissions |-> [name |-> "Client-Side Permissions", passed |-> FALSE,
                                     issues |-> <<Issue("clientside-permission-check", "medium")>>],
     checkExposedFiles |-> [name |-> "Exposed Files", passed |-> FALSE,
                            issues |-> <<Issue("exposed---env", "critical")>>],
     checkAdminPaths |-> [name |-> "Admin Paths", passed |-> FALSE,
                          issues |-> <<Issue("admin--phpmyadmin", "critical")>>],
     checkRobots |-> [name |-> "Robots.txt Analysis", passed |-> TRUE,
                      issues |-> <<Issue("robots-sensitive-paths", "low"), Issue("robots-disallow-all", "info")>>]]

DetectorNames == DOMAIN Finding

\* the result of detector fn on a target where the detectors of the set
\* findings have something to report
Reported(findings, fn) ==
    IF fn \in findings
    THEN CheckResult(Finding[fn].name, Finding[fn].passed, Finding[fn].issues, fn)
    ELSE CheckResult(Finding[fn].name, TRUE, <<>>, fn)

\* the targets scanned: nothing to report, everything to report, only the
\* checks of the main page, only the detectors that make their own requests
Targets ==
    { {}, DetectorNames,
      {"checkSecurityHeaders", "checkCookies", "checkCORS", "checkServerInfo"},
      {"checkSSL", "checkExposedFiles", "checkRobots"} }

\* answers to the main page fetch: a page, a page with an empty body, a
\* body that cannot be read, a refused connection, no answer in time
MainAnswers ==
    {Page(HomePage, TextHtml), Page(<<>>, TextHtml), NotFound,
     BrokenBody(TextHtml), NetworkError, TimedOut}

\* how a promise stands
Pending         == [state |-> "pending"]
Fulfilled(v)    == [state |-> "fulfilled", value |-> v]
Rejected(why)   == [state |-> "rejected", reason |-> why]

\* the ways the promise of detector fn settles
Settlements(findings, fn) == {Fulfilled(Reported(findings, fn)), Rejected(fn)}

\* ---- the summary ----
RECURSIVE FlatIssues(_, _, _)
\* checks.flatMap(c => c.issues), from check k on
FlatIssues(checks, k, acc) ==
    IF k > Len(checks) THEN acc
    ELSE FlatIssues(checks, k + 1, acc \o checks[k].issues)

\* allIssues.filter(i => i.severity === severity).length
CountSeverity(allIssues, severity) ==
    Cardinality({i \in DOMAIN allIssues : allIssues[i].severity = severity})

\* a variant that leaves the informational findings out of the counts
SummaryWithoutInfo(checks, allIssues) ==
    [total    |-> Len(allIssues),
     passed   |-> Cardinality({k \in DOMAIN checks : checks[k].passed}),
     failed   |-> Cardinality({k \in DOMAIN checks : ~checks[k].passed}),
     critical |-> CountSeverity(allIssues, "critical"),
     high     |-> CountSeverity(allIssues, "high"),
     medium   |-> CountSeverity(allIssues, "medium"),
     low      |-> CountSeverity(allIssues, "low"),
     info     |-> 0]

\* const summary = { total, passed, failed, critical, high, medium, low, info }
SummaryOf(checks, allIssues) ==
    [total    |-> Len(allIssues),
     passed   |-> Cardinality({k \in DOMAIN checks : checks[k].passed}),
     failed   |-> Cardinality({k \in DOMAIN checks : ~checks[k].passed}),
     critical |-> CountSeverity(allIssues, "critical"),
     high     |-> CountSeverity(allIssues, "high"),
     medium   |-> CountSeverity(allIssues, "medium"),
     low      |-> CountSeverity(allIssues, "low"),
     info     |-> CountSeverity(allIssues, "info")]

\* return { url, timestamp, duration, checks, summary, techStack, htmlContent }
ScanResultOf(s, checks) ==
    [checks      |-> checks,
     summary     |-> SummaryOf(checks, FlatIssues(checks, 1, <<>>)),
     techStack   |-> IF s.techDetails = Undefined THEN Undefined ELSE "detected",
     htmlContent |-> IF s.options.outreach THEN s.mainHtml ELSE Undefined]

\* ---- the call ----
\* a variant that calls checkSSL before it awaits the main page
ScanCallStartsEarly(options, findings) ==
    [pc |-> "main", options |-> options, findings |-> findings,
     baseline |-> "pending", answer |-> NetworkError,
     mainHeaders |-> Null, mainHtml |-> <<>>, checks |-> <<>>, step |-> 0,
     techDetails |-> Undefined, parallelChecks |-> <<>>, promises |-> <<>>,
     started |-> <<"checkSSL">>, rootGets |-> <<"scanUrl">>,
     settled |-> Pending]

\* scanUrl(options) up to the main page fetch. Two fields keep a history
\* for the properties: started, the detectors called so far, in call
\* order; rootGets, who sent a GET request for the target's root page
ScanCall(options, findings) ==
    [pc |-> "main", options |-> options, findings |-> findings,
     baseline |-> "pending", answer |-> NetworkError,
     mainHeaders |-> Null, mainHtml |-> <<>>, checks |-> <<>>, step |-> 0,
     techDetails |-> Undefined, parallelChecks |-> <<>>, promises |-> <<>>,
     started |-> <<>>, rootGets |-> <<"scanUrl">>,
     settled |-> Pending]

\* mainResponse = await fetch(...) fulfilled: mainHeaders = mainResponse.headers,
\* then await mainResponse.text()
HeadersReceived(s, answer) ==
    [s EXCEPT !.pc = "body", !.answer = answer, !.mainHeaders = Headers(answer.contentType)]

\* the try block is left with mainHtml = await mainResponse.text(); finally
MainFetched(s, html) == [s EXCEPT !.baseline = "received", !.mainHtml = html]

\* the try block is left by catch: the fetch or text() rejected, or the
\* timer aborted them; finally
MainFailed(s) == [s EXCEPT !.baseline = "failed"]

\* the detectors that send a GET request for the root page when called:
\* checkApiKeys always, checkClientSidePermissions and checkAdminPaths when
\* they are given no content of the main page
FetchesRoot(fn, mainHtml) ==
    \/ fn = "checkApiKeys"
    \/ fn \in {"checkClientSidePermissions", "checkAdminPaths"} /\ mainHtml = <<>>

RootGetsOf(calls, mainHtml) ==
    LET Gets(fn) == FetchesRoot(fn, mainHtml) IN SelectSeq(calls, Gets)

\* if (mainHeaders) / if (mainHeaders && mainHtml) for the tech stack
Called(s, k) ==
    /\ s.mainHeaders # Null
    /\ (MainChecks[k].fn = "checkTechStack" => s.mainHtml # <<>>)

\* parallelChecks filled, then await Promise.all(parallelChecks)
StartParallel(s, calls) ==
    [s EXCEPT !.pc = "parallel", !.step = 0, !.parallelChecks = calls,
              !.promises = [i \in DOMAIN calls |-> Pending],
              !.started = s.started \o calls,
              !.rootGets = s.rootGets \o RootGetsOf(calls, s.mainHtml)]

RECURSIVE RunMainChecks(_, _)
\* Steps 2 to 6 from check k on, up to the next await
RunMainChecks(s, k) ==
    IF k > Len(MainChecks)
    THEN StartParallel(s, ParallelChecks(s.options.outreach, s.options.skipAdminPaths))
    ELSE IF Called(s, k)
    THEN [s EXCEPT !.pc = "check", !.step = k, !.started = Append(@, MainChecks[k].fn)]
    ELSE RunMainChecks([s EXCEPT !.checks = Append(@, MainChecks[k].skipped)], k + 1)

\* an await of scanUrl throws: the promise of scanUrl is rejected
ScanRejected(s, why) == [s EXCEPT !.pc = "rejected", !.settled = Rejected(why)]

\* const r = await check...(...); checks.push(r)
MainCheckSettled(s, k, settlement) ==
    IF settlement.state = "rejected" THEN ScanRejected(s, settlement.reason)
    ELSE RunMainChecks([s EXCEPT !.checks = Append(@, settlement.value),
                                 !.techDetails = IF MainChecks[k].fn = "checkTechStack"
                                                 THEN settlement.value.details ELSE @],
                       k + 1)

\* Promise.all(parallelChecks) once fulfilled: the values in push order
ValuesOf(promises) == [i \in DOMAIN promises |-> promises[i].value]

\* for (const result of parallelResults) checks.push(result); summary; return
ScanReturn(s) ==
    [s EXCEPT !.pc = "returned", !.checks = s.checks \o ValuesOf(s.promises),
              !.settled = Fulfilled(ScanResultOf(s, s.checks \o ValuesOf(s.promises)))]

\* promise i of parallelChecks settles
ParallelSettled(s, i, settlement) == [s EXCEPT !.promises[i] = settlement]

\* await Promise.all(parallelChecks): rejected with the first rejection,
\* fulfilled when every promise is fulfilled
AwaitAll(s) ==
    IF \E i \in DOMAIN s.promises : s.promises[i].state = "rejected"
    THEN ScanRejected(s, s.promises[CHOOSE i \in DOMAIN s.promises : s.promises[i].state = "rejected"].reason)
    ELSE IF \A i \in DOMAIN s.promises : s.promises[i].state = "fulfilled"
    THEN ScanReturn(s)
    ELSE s

\* the main page fetch settles: with a response, whose body is then read,
\* or with a failure, and Steps 2 to 6 run up to the first detector called
ScanMainSettle ==
    /\ scan.pc = "main"
    /\ \E answer \in MainAnswers :
           scan' = IF answer.kind = "response" THEN HeadersReceived(scan, answer)
                   ELSE RunMainChecks(MainFailed(scan), 1)
    /\ UNCHANGED <<dns, keys, probe, tko, net, fcall>>

\* mainResponse.text() settles: with the body, or rejected (the body cannot
\* be read, or the timer, still armed, aborts the request)
ScanBodySettle ==
    /\ scan.pc = "body"
    /\ \/ scan.answer.read /\ scan' = RunMainChecks(MainFetched(scan, scan.answer.body), 1)
       \/ scan' = RunMainChecks(MainFailed(scan), 1)
    /\ UNCHANGED <<dns, keys, probe, tko, net, fcall>>

\* the awaited check k of the main page settles
ScanCheckSettle(k) ==
    /\ scan.pc = "check" /\ scan.step = k
    /\ \E settlement \in Settlements(scan.findings, MainChecks[k].fn) :
           scan' = MainCheckSettled(scan, k, settlement)
    /\ UNCHANGED <<dns, keys, probe, tko, net, fcall>>

\* promise i of parallelChecks settles while scanUrl awaits Promise.all
ScanDetectorSettle(i) ==
    /\ scan.pc = "parallel"
    /\ scan.promises[i].state = "pending"
    /\ \E settlement \in Settlements(scan.findings, scan.parallelChecks[i]) :
           scan' = AwaitAll(ParallelSettled(scan, i, settlement))
    /\ UNCHANGED <<dns, keys, probe, tko, net, fcall>>

ScanOptions == [outreach : BOOLEAN, skipAdminPaths : BOOLEAN]

InitScan ==
    /\ scan \in {ScanCall(options, findings) : options \in ScanOptions, findings \in Targets}
    /\ dns = Idle /\ keys = Idle /\ probe = Idle /\ tko = Idle /\ net = Idle /\ fcall = Idle

NextScan ==
    \/ ScanMainSettle
    \/ ScanBodySettle
    \/ \E k \in DOMAIN MainChecks : ScanCheckSettle(k)
    \/ \E i \in DOMAIN scan.promises : ScanDetectorSettle(i)

SpecScan == InitScan /\ [][NextScan]_vars

\* ---- C1 ----
ScanSettled == scan.pc \in {"returned", "rejected"}

\* a detector of the parallel phase has failed
DetectorFailed(i) == i \in DOMAIN scan.promises /\ scan.promises[i].state = "rejected"

\* the CheckResult that stands for a detector that failed: its name, no issue
FailedResult(check, fn) == check.name = Finding[fn].name /\ check.issues = <<>>

\* the ScanResult holds one CheckResult per scheduled detector, after the
\* five checks of the main page: a failed one for the detector that failed,
\* the detector's own for the others
IsolatedResult(checks) ==
    /\ Len(checks) = Len(MainChecks) + Len(scan.parallelChecks)
    /\ \A i \in DOMAIN scan.parallelChecks :
           IF DetectorFailed(i)
           THEN FailedResult(checks[Len(MainChecks) + i], scan.parallelChecks[i])
           ELSE checks[Len(MainChecks) + i] = Reported(scan.findings, scan.parallelChecks[i])

\* C1: detector isolation in scanUrl. Whenever a detector of the parallel
\* phase (SSL, DNS, API keys, client-side permissions, exposed files, admin
\* paths, robots) fails with an unexpected exception, that is, its promise
\* is rejected, scanUrl still returns a ScanResult, and the ScanResult
\* contains one CheckResult for every scheduled detector: an empty, failed
\* one for the detector that failed and the normal ones for all the others.
C1_DetectorIsolation ==
    (\E i \in DOMAIN scan.parallelChecks : DetectorFailed(i))
        => /\ scan.pc = "returned"
           /\ IsolatedResult(scan.settled.value.checks)

\* ---- C13 ----
\* the detectors of the parallel phase that were started and have not settled
DetectorsInFlight == {i \in DOMAIN scan.promises : scan.promises[i].state = "pending"}

\* C13: orchestrator fan-out bound. After the baseline fetch scanUrl runs
\* the remaining detectors with at most a fixed worker count of detectors in
\* flight at any instant, the worker count being smaller than the number of
\* scheduled detectors: the remaining detectors are never all in flight at once.
C13_FanOutBound ==
    scan.pc = "parallel" =>
        Cardinality(DetectorsInFlight) < Len(scan.parallelChecks)

\* ---- C14 ----
\* C14: baseline-first ordering in scanUrl. In every execution no detector
\* is started and no detector probe is issued before the main page fetch has
\* settled (response and body received, network failure, or timeout).
C14_BaselineFirst ==
    scan.baseline = "pending" =>
        /\ scan.started = <<>> /\ scan.promises = <<>> /\ scan.checks = <<>>
        /\ scan.rootGets = <<"scanUrl">>

\* witness of C14: the headers of the main page are received and its body is
\* being read; nothing else has happened
C14_Witness ==
    /\ scan.pc = "body" /\ scan.baseline = "pending" /\ scan.mainHeaders # Null
    /\ scan.started = <<>>

\* detectors run after the main page settled with a failure, and after its
\* body was read
StartedAfterFailure == scan.started # <<>> /\ scan.mainHeaders = Null
StartedAfterBody    == scan.started # <<>> /\ scan.mainHtml # <<>>

\* ---- C15 ----
\* C15: single baseline fetch. During one scanUrl invocation the target's
\* root page is requested with GET exactly once, by the orchestrator; every
\* detector that needs the headers or the body of the root page uses that
\* response and does not fetch the page again.
C15_SingleBaselineFetch == scan.rootGets = <<"scanUrl">>

\* ---- C16 ----
MainFns == {MainChecks[k].fn : k \in DOMAIN MainChecks}

\* the names of the CheckResults of a scan whose main page was fetched, in
\* order: the names the detectors give their results
NamesOfFullScan(options) ==
    [k \in DOMAIN MainChecks |-> Finding[MainChecks[k].fn].name]
    \o [i \in DOMAIN ParallelChecks(options.outreach, options.skipAdminPaths) |->
           Finding[ParallelChecks(options.outreach, options.skipAdminPaths)[i]].name]

NamesOf(checks) == [k \in DOMAIN checks |-> checks[k].name]

\* the detectors of the set fns were not called, and each of them has a
\* CheckResult without issues in its place
SkippedAll(fns) ==
    /\ \A k \in DOMAIN scan.started : scan.started[k] \notin fns
    /\ \A k \in DOMAIN MainChecks :
          (MainChecks[k].fn \in fns /\ k <= Len(scan.checks)) =>
              /\ scan.checks[k].name = Finding[MainChecks[k].fn].name
              /\ scan.checks[k].issues = <<>>

\* scanUrl does not throw on account of the main page (when it throws, a
\* detector that was called has failed with an exception of its own, the
\* case of C1), the detectors that do not depend on the main page run, and
\* the result has the checks of a full scan
DegradedScan ==
    /\ scan.pc = "rejected" =>
          \E k \in DOMAIN scan.started : scan.started[k] = scan.settled.reason
    /\ scan.pc \in {"parallel", "returned"} =>
          /\ Len(scan.checks) >= Len(MainChecks)
          /\ scan.parallelChecks = ParallelChecks(scan.options.outreach, scan.options.skipAdminPaths)
          /\ \A i \in DOMAIN scan.parallelChecks :
                \E k \in DOMAIN scan.started : scan.started[k] = scan.parallelChecks[i]
    /\ scan.pc = "returned" =>
          NamesOf(scan.settled.value.checks) = NamesOfFullScan(scan.options)

ReturnedAfterBodyFailure ==
    /\ scan.pc = "returned" /\ scan.baseline = "failed" /\ scan.mainHeaders # Null
    /\ scan.settled.value.checks[1].issues # <<>>

\* ---- C17 ----
\* check k of the main page was not called: its detector could not run
NotCalled(k) == \A j \in DOMAIN scan.started : scan.started[j] # MainChecks[k].fn

\* C17: 'could not run' versus 'no findings'. A CheckResult produced because
\* its detector could not run (here: the main page is missing) has
\* passed = true and issues = [], and its details payload differs from the
\* one the same detector returns after a run that found nothing.
C17_CouldNotRunDistinct ==
    scan.pc = "returned" =>
        \A k \in DOMAIN MainChecks :
            NotCalled(k) =>
                /\ scan.settled.value.checks[k].passed
                /\ scan.settled.value.checks[k].issues = <<>>
                /\ scan.settled.value.checks[k].details # Reported({}, MainChecks[k].fn).details

\* ---- C18 ----
\* the findings of a list of checks: pairs (check, position in its issues)
FindingsIn(checks) ==
    UNION {{<<k, j>> : j \in DOMAIN checks[k].issues} : k \in DOMAIN checks}

FindingsOfSeverity(checks, severity) ==
    {f \in FindingsIn(checks) : checks[f[1]].issues[f[2]].severity = severity}

RECURSIVE SumOfLengths(_, _)
\* the sum of the lengths of the issues lists of checks[1..k]
SumOfLengths(checks, k) ==
    IF k = 0 THEN 0 ELSE Len(checks[k].issues) + SumOfLengths(checks, k - 1)

SummaryConsistent(r) ==
    /\ r.summary.total = SumOfLengths(r.checks, Len(r.checks))
    /\ r.summary.critical + r.summary.high + r.summary.medium + r.summary.low
           + r.summary.info = r.summary.total
    /\ r.summary.critical = Cardinality(FindingsOfSeverity(r.checks, "critical"))
    /\ r.summary.high     = Cardinality(FindingsOfSeverity(r.checks, "high"))
    /\ r.summary.medium   = Cardinality(FindingsOfSeverity(r.checks, "medium"))
    /\ r.summary.low      = Cardinality(FindingsOfSeverity(r.checks, "low"))
    /\ r.summary.info     = Cardinality(FindingsOfSeverity(r.checks, "info"))
    /\ r.summary.passed + r.summary.failed = Len(r.checks)

\* C18: summary consistency. In every ScanResult returned by scanUrl,
\* summary.total is the sum of the lengths of the issues lists of all
\* CheckResults, critical + high + medium + low + info equals total, each
\* count is the number of findings of that severity, and passed + failed
\* is the number of CheckResults.
C18_SummaryConsistent ==
    scan.pc = "returned" => SummaryConsistent(scan.settled.value)

\* witness of C18: a returned ScanResult with findings of every severity,
\* a check with two findings, checks that passed and checks that failed
C18_Witness ==
    /\ scan.pc = "returned"
    /\ \A severity \in {"critical", "high", "medium", "low", "info"} :
          scan.settled.value.summary[severity] > 0
    /\ scan.settled.value.summary.passed > 0 /\ scan.settled.value.summary.failed > 0
    /\ scan.settled.value.summary.total > Len(scan.settled.value.checks)

\* ---------------------------------------------------------------------
\* The detectors that work in batches, one of them running:
\* checkExposedFiles, checkAdminPaths (probe) or checkSubdomainTakeovers (tko)
\* ---------------------------------------------------------------------
InitBatches == InitProbe \/ InitTakeover

NextBatches == NextProbe \/ NextTakeover

SpecBatches == InitBatches /\ [][NextBatches]_vars

ProbeRuns    == probe.pc # "idle"
TakeoverRuns == tko.pc # "idle"

\* the table entries whose request was sent
Issued(p) == {p.requests[k] : k \in 1..Len(p.requests)}

\* the request of entry e has its result: in the results of the running
\* chunk, or already written to details
HasResult(p, e) == e \in DOMAIN p.results \/ PathOf(p.detector, e) \in DOMAIN p.details

\* the requests sent that have no result yet
InFlight(p) == {e \in Issued(p) : ~HasResult(p, e)}

\* the candidates checkSubdomainTakeover is working on, and those it was called for
Processing(t) == {i \in DOMAIN t.cands : t.cands[i].pc \in {"cname", "https", "http"}}
Examined(t)   == {i \in DOMAIN t.cands : t.cands[i].pc # "waiting"}

\* C11: per-detector concurrency bound. At every instant the number of
\* probes in flight issued by checkExposedFiles is at most 5, by
\* checkAdminPaths at most 3, and the number of candidates being processed
\* by checkSubdomainTakeovers is at most 3; it examines at most maxChecks
\* candidates in total.
C11_ConcurrencyBound ==
    /\ ProbeRuns =>
          Cardinality(InFlight(probe)) <= (IF probe.detector = "files" THEN 5 ELSE 3)
    /\ TakeoverRuns =>
          /\ Cardinality(Processing(tko)) <= 3
          /\ Cardinality(Examined(tko)) <= tko.maxChecks

\* witness of C11: checkExposedFiles has five probes in flight in a batch
\* after the first
C11_Witness ==
    /\ ProbeRuns /\ probe.detector = "files" /\ probe.from > 0
    /\ Cardinality(InFlight(probe)) = 5

\* the same for checkAdminPaths (three probes) and for
\* checkSubdomainTakeovers (three candidates; more candidates than maxChecks)
AdminAtBound == ProbeRuns /\ probe.detector = "admin" /\ Cardinality(InFlight(probe)) = 3
TakeoverAtBound == TakeoverRuns /\ Cardinality(Processing(tko)) = 3
TakeoverClipped ==
    /\ TakeoverRuns /\ Len(tko.subdomains) > tko.maxChecks
    /\ Cardinality(Examined(tko)) = tko.maxChecks

\* the batch of table entry e (0-based)
BatchNo(detector, e) == (e - 1) \div Concurrency(detector)

\* every entry of the batches before the batch of e has its result
EarlierSettled(p, e) ==
    \A d \in 1..TableSize(p.detector) :
        BatchNo(p.detector, d) < BatchNo(p.detector, e) => HasResult(p, d)

\* every entry of the batch of e has its result
BatchSettledOf(p, e) ==
    \A d \in 1..TableSize(p.detector) :
        BatchNo(p.detector, d) = BatchNo(p.detector, e) => HasResult(p, d)

\* the same for the candidates of checkSubdomainTakeovers
CandBatch(i) == (i - 1) \div 3
CandsSettledBefore(t, i) ==
    \A j \in 1..t.checkedCount : CandBatch(j) < CandBatch(i) => t.cands[j].pc = "settled"
CandBatchSettled(t, i) ==
    \A j \in 1..t.checkedCount : CandBatch(j) = CandBatch(i) => t.cands[j].pc = "settled"

\* C12: batch barrier. In checkExposedFiles, checkAdminPaths and
\* checkSubdomainTakeovers no probe of a batch is issued before every item
\* of the batches before it has settled, with a success or a failure; the
\* findings of a batch are in the issues list only when all items of that
\* batch have settled; and a failing item does not prevent the remaining
\* batches from running: at the return every entry was probed.
C12_BatchBarrier ==
    /\ ProbeRuns =>
          /\ \A e \in Issued(probe) : EarlierSettled(probe, e)
          /\ \A k \in 1..Len(probe.issues) :
                \A e \in EntriesOf(probe.detector, probe.issues[k]) : BatchSettledOf(probe, e)
          /\ probe.pc = "done" =>
                \A e \in 1..TableSize(probe.detector) :
                    Cardinality(RequestsOf(probe, e)) = 1 /\ HasResult(probe, e)
    /\ TakeoverRuns =>
          /\ \A i \in Examined(tko) : CandsSettledBefore(tko, i)
          /\ \A i \in 1..tko.checkedCount :
                FindingsFor(tko, i) # {} => CandBatchSettled(tko, i)
          /\ tko.pc = "done" => \A i \in 1..tko.checkedCount : tko.cands[i].pc = "settled"

\* witness of C12: a batch after the first is running with one item settled
\* and another in flight, an earlier batch had a request that failed and
\* one that gave a finding
C12_Witness ==
    /\ ProbeRuns /\ probe.pc = "chunk" /\ probe.from > 0
    /\ InFlight(probe) # {} /\ DOMAIN probe.results # {}
    /\ probe.issues # <<>>
    /\ \E path \in DOMAIN probe.details : probe.details[path].status = 0

-----------------------------------------------------------------------------
(* Network calls and their timers.                                         *)
(*                                                                         *)
(* Every place where the scanner awaits the network is a row of a table:   *)
(* who calls, what is called, which timer the code arms around the call    *)
(* and which answers make the caller go on to read the body.               *)
(*                                                                         *)
(* timer:  "none"          no setTimeout, no AbortSignal, no option         *)
(*         "untilResponse" setTimeout(abort) before fetch, clearTimeout     *)
(*                         right after the fetch promise resolves, that is  *)
(*                         when the headers are in and before text()        *)
(*         "untilDone"     the timer stays armed until the call is over     *)
(*                         (clearTimeout after text(), or socket.setTimeout)*)
(* reads:  "always" | "ok" (response.ok) | "200" (status === 200) | "never" *)
(* answers: "http" (a status line) | "plain" (records, a TLS handshake)     *)

NetCall(caller, call, timer, reads, answers) ==
    [caller |-> caller, call |-> call, timer |-> timer, reads |-> reads,
     answers |-> answers]

\* scanUrl, checkApiKeys, checkClientSidePermissions
CallsOfScanner ==
    << NetCall("scanUrl", "fetch main page", "untilDone", "always", "http"),
       NetCall("checkApiKeys", "fetch main page", "untilResponse", "ok", "http"),
       NetCall("checkApiKeys", "fetch script", "untilResponse", "ok", "http"),
       NetCall("checkClientSidePermissions", "fetch main page", "untilResponse", "ok", "http"),
       NetCall("checkClientSidePermissions", "fetch script", "untilResponse", "ok", "http") >>

\* checkExposedFiles, checkRobots
CallsOfFiles ==
    << NetCall("checkExposedFiles", "fetch file", "untilResponse", "200", "http"),
       NetCall("checkRobots", "fetch robots.txt", "untilResponse", "200", "http") >>

\* getSSLDetails: tls.connect with socket.setTimeout(10000)
CallsOfSSL ==
    << NetCall("checkSSL", "tls.connect", "untilDone", "never", "plain") >>

\* checkDnsSecurity, checkCORS
CallsOfDnsAndCors ==
    << NetCall("checkDnsSecurity", "resolveMx", "none", "never", "plain"),
       NetCall("checkDnsSecurity", "resolveTxt domain", "none", "never", "plain"),
       NetCall("checkDnsSecurity", "resolveTxt _dmarc", "none", "never", "plain"),
       NetCall("checkCORS", "preflight evil origin", "none", "never", "http"),
       NetCall("checkCORS", "preflight null origin", "none", "never", "http") >>

\* checkAdminPaths
CallsOfAdminPaths ==
    << NetCall("checkAdminPaths", "fetch main page", "untilResponse", "ok", "http"),
       NetCall("checkAdminPaths", "fetch path", "untilResponse", "200", "http") >>

\* checkSubdomainTakeover, checkHttpFingerprint
CallsOfTakeover ==
    << NetCall("checkSubdomainTakeovers", "resolveCname", "none", "never", "plain"),
       NetCall("checkSubdomainTakeovers", "fetch https", "untilDone", "always", "http"),
       NetCall("checkSubdomainTakeovers", "fetch http", "untilDone", "always", "http") >>

NetCalls ==
    CallsOfScanner \o CallsOfFiles \o CallsOfSSL \o CallsOfDnsAndCors
        \o CallsOfAdminPaths \o CallsOfTakeover

\* What a peer can put on a status line: 200, another 2xx, an error.
Statuses == {200, 204, 404}

AnswersOf(site) == IF site.answers = "http" THEN Statuses ELSE {0}

\* Does the caller go on to await response.text() after this answer?
ReadsBody(site, status) ==
    \/ site.reads = "always"
    \/ site.reads = "ok" /\ Ok(status)
    \/ site.reads = "200" /\ status = 200

\* The call has just been issued: the timer, if the code sets one, is armed.
Sent(i) ==
    [pc |-> "sent", site |-> i, armed |-> NetCalls[i].timer # "none",
     status |-> 0, outcome |-> "none"]

\* The awaited promise resolved: headers (or records, or the handshake) are in.
Responded(n, status) ==
    IF ReadsBody(NetCalls[n.site], status)
    THEN [n EXCEPT !.pc = "reading", !.status = status,
                   !.armed = NetCalls[n.site].timer = "untilDone"]
    ELSE [n EXCEPT !.pc = "done", !.status = status, !.armed = FALSE,
                   !.outcome = "answered"]

\* The call is over: whatever timer there was is cleared.
Over(n, outcome) == [n EXCEPT !.pc = "done", !.armed = FALSE, !.outcome = outcome]

InFlightCall == net.pc \in {"sent", "reading"}

NetRespond ==
    /\ net.pc = "sent"
    /\ \E status \in AnswersOf(NetCalls[net.site]) : net' = Responded(net, status)
    /\ UNCHANGED <<dns, keys, probe, tko, scan, fcall>>

NetBodyRead ==
    /\ net.pc = "reading"
    /\ net' = Over(net, "answered")
    /\ UNCHANGED <<dns, keys, probe, tko, scan, fcall>>

\* The armed timer fires: controller.abort() or socket.destroy(); the awaited
\* promise rejects and the caller's catch records the failure.
NetTimeout ==
    /\ InFlightCall
    /\ net.armed
    /\ net' = Over(net, "timed out")
    /\ UNCHANGED <<dns, keys, probe, tko, scan, fcall>>

\* The peer or the network fails the call: the same catch.
NetError ==
    /\ InFlightCall
    /\ net' = Over(net, "failed")
    /\ UNCHANGED <<dns, keys, probe, tko, scan, fcall>>

InitCalls ==
    /\ net \in {Sent(i) : i \in DOMAIN NetCalls}
    /\ dns = Idle /\ keys = Idle /\ probe = Idle /\ tko = Idle /\ scan = Idle /\ fcall = Idle

NextCalls == NetRespond \/ NetBodyRead \/ NetTimeout \/ NetError

SpecCalls == InitCalls /\ [][NextCalls]_vars

-----------------------------------------------------------------------------
(* C19: per-call timeout                                                   *)

\* C19: every network call carries a timeout that stays armed until the
\* call's body read has finished: while a call is in flight, whether it waits
\* for the response or reads the body, its timer is armed.
C19_TimeoutArmedUntilBodyRead == InFlightCall => net.armed

\* Where it fails.
NoTimerAtAll == InFlightCall /\ NetCalls[net.site].timer = "none"

ReadingWithTimerCleared ==
    net.pc = "reading" /\ NetCalls[net.site].timer = "untilResponse" /\ ~net.armed

\* Where it holds: the main fetch of scanUrl while it reads the body.
MainFetchReadingArmed ==
    net.pc = "reading" /\ NetCalls[net.site].caller = "scanUrl" /\ net.armed

-----------------------------------------------------------------------------
(* Termination of scanUrl.                                                 *)
(*                                                                         *)
(* The timers and callbacks of the program are scheduled fairly: a timer   *)
(* that is armed fires unless the call ends first, and a settled promise    *)
(* resumes its awaiter. The peer and the resolver owe nothing. A step of    *)
(* scanUrl that waits for the network is therefore bound to happen only     *)
(* when every call behind it keeps a timer armed until the call is over.    *)

\* Every network call made by fn is cut by a timer of the program, at
\* whatever point the peer stops answering (vacuous for a detector that
\* only looks at the headers and the body already fetched).
Guarded(fn) ==
    \A i \in DOMAIN NetCalls :
        NetCalls[i].caller = fn => NetCalls[i].timer = "untilDone"

GuardedMainChecks == {k \in DOMAIN MainChecks : Guarded(MainChecks[k].fn)}

GuardedDetectors == {fn \in DetectorNames : Guarded(fn)}

\* the promise of detector fn in parallelChecks settles
ScanSettleOf(fn) ==
    \E i \in DOMAIN scan.promises :
        scan.parallelChecks[i] = fn /\ ScanDetectorSettle(i)

ScanFairness ==
    /\ Guarded("scanUrl") => WF_vars(ScanMainSettle) /\ WF_vars(ScanBodySettle)
    /\ \A k \in GuardedMainChecks : WF_vars(ScanCheckSettle(k))
    /\ \A fn \in GuardedDetectors : WF_vars(ScanSettleOf(fn))

SpecScanLive == InitScan /\ [][NextScan]_vars /\ ScanFairness

ScanOver == scan.pc \in {"returned", "rejected"}

-----------------------------------------------------------------------------
(* C20: scan termination                                                   *)

\* C20: under fair scheduling of timers and callbacks every call of scanUrl
\* is eventually over (it returns a ScanResult, or at least settles),
\* whatever the target and the resolver do.
C20_ScanTerminates == <>ScanOver

\* The steps the timers do guarantee: the main page fetch is always left.
MainFetchLeft == <>(scan.pc \notin {"main", "body"})

-----------------------------------------------------------------------------
(* C29: meaning of passed                                                  *)

\* C29: in every ScanResult returned by scanUrl, every CheckResult has
\* passed = true if and only if its issues list is empty, for the results of
\* detectors and for the literals pushed for checks that were not called.
C29_PassedIffNoIssues ==
    scan.pc = "returned" =>
        \A k \in DOMAIN scan.settled.value.checks :
            scan.settled.value.checks[k].passed
                <=> scan.settled.value.checks[k].issues = <<>>

\* Where it fails: a check that passed with findings (checkRobots counts
\* only findings above low), a check that failed without any (the literal
\* pushed for Security Headers).
PassedWithIssues ==
    /\ scan.pc = "returned"
    /\ \E k \in DOMAIN scan.settled.value.checks :
           /\ scan.settled.value.checks[k].passed
           /\ scan.settled.value.checks[k].issues # <<>>

FailedWithoutIssues ==
    /\ scan.pc = "returned"
    /\ \E k \in DOMAIN scan.settled.value.checks :
           /\ ~scan.settled.value.checks[k].passed
           /\ scan.settled.value.checks[k].issues = <<>>

-----------------------------------------------------------------------------
(* C30: result order under concurrency                                     *)

\* scanUrl with its detectors settling in any order, and checkExposedFiles /
\* checkAdminPaths with the probes of a batch settling in any order
InitOrder == InitScan \/ InitProbe

NextOrder ==
    \/ scan.pc # "idle" /\ NextScan
    \/ probe.pc # "idle" /\ NextProbe

SpecOrder == InitOrder /\ [][NextOrder]_vars

\* the order of ScanResult.checks
FixedOrder(withAdminPaths) ==
    <<"Security Headers", "Cookie Security", "CORS Configuration",
      "Server Information", "Technology Stack", "SSL/TLS",
      "Email Security (DNS)", "API Key Exposure", "Client-Side Permissions",
      "Exposed Files">>
    \o (IF withAdminPaths THEN <<"Admin Paths">> ELSE <<>>)
    \o <<"Robots.txt Analysis">>

NamesIn(checks) == [k \in DOMAIN checks |-> checks[k].name]

\* the finding each entry of the detector's table yields, in table order
TableIssues(detector) ==
    IF detector = "files"
    THEN [i \in DOMAIN SENSITIVE_FILES |-> FileIssue(SENSITIVE_FILES[i])]
    ELSE [i \in DOMAIN ADMIN_PATHS |-> AdminIssue(ADMIN_PATHS[i])]

\* issues is a subsequence of table: its elements come from the table and
\* follow one another as they do there
InTableOrder(issues, table) ==
    /\ \A a \in DOMAIN issues : \E i \in DOMAIN table : issues[a] = table[i]
    /\ \A a, b \in DOMAIN issues :
           a < b => \E i, j \in DOMAIN table :
                        i < j /\ issues[a] = table[i] /\ issues[b] = table[j]

\* the entries of the chunk that holds entry i
ChunkOf(detector, i) == (i - 1) \div Concurrency(detector)

\* C30: whatever the order in which the parallel detectors and the probes of
\* a batch complete, ScanResult.checks lists the checks in one fixed order,
\* each name once, and the findings of checkExposedFiles and checkAdminPaths
\* are in table order.
C30_DeterministicOrder ==
    /\ scan.pc = "returned" =>
           NamesIn(scan.settled.value.checks)
               = FixedOrder(~scan.options.outreach /\ ~scan.options.skipAdminPaths)
    /\ probe.pc = "done" =>
           InTableOrder(probe.result.issues, TableIssues(probe.detector))

\* witness of C30: a detector has returned two findings that come from the
\* same batch
C30_Witness ==
    /\ probe.pc = "done"
    /\ \E a, b \in DOMAIN probe.result.issues :
           /\ a < b
           /\ \E i, j \in DOMAIN TableIssues(probe.detector) :
                  /\ probe.result.issues[a] = TableIssues(probe.detector)[i]
                  /\ probe.result.issues[b] = TableIssues(probe.detector)[j]
                  /\ ChunkOf(probe.detector, i) = ChunkOf(probe.detector, j)

\* the later probe of a batch has its result while an earlier one is pending
LaterProbeFirst ==
    /\ probe.pc = "chunk"
    /\ \E i \in probe.pending : \E j \in DOMAIN probe.results : i < j

\* a scan has returned with and without Admin Paths
ReturnedWithAdminPaths ==
    scan.pc = "returned" /\ Len(scan.settled.value.checks) = 12

ReturnedWithoutAdminPaths ==
    scan.pc = "returned" /\ Len(scan.settled.value.checks) = 11

-----------------------------------------------------------------------------
(* C28: severity of admin-path findings                                    *)

DatabaseToolNames == {<<"p","h","p","M","y","A","d","m","i","n">>, <<"A","d","m","i","n","e","r">>}

DebugOrInstallNames ==
    {<<"S","y","m","f","o","n","y"," ","P","r","o","f","i","l","e","r">>, <<"E","L","M","A","H">>, <<"A","p","a","c","h","e"," ","S","e","r","v","e","r"," ","S","t","a","t","u","s">>, <<"A","p","a","c","h","e"," ","S","e","r","v","e","r"," ","I","n","f","o">>,
     <<"P","H","P"," ","I","n","f","o">>, <<"W","o","r","d","P","r","e","s","s"," ","I","n","s","t","a","l","l">>}

\* the finding reported for entry i of ADMIN_PATHS, if there is one
AdminFindings(i) ==
    {probe.result.issues[a] : a \in
        {a \in DOMAIN probe.result.issues :
            probe.result.issues[a].title
                = ADMIN_PATHS[i].name \o <<" ","f","o","u","n","d",":"," ">> \o ADMIN_PATHS[i].path}}

\* the severities the table of checkExposedFiles gives to a path
FileSeverities(path) ==
    {SENSITIVE_FILES[k].severity :
        k \in {k \in DOMAIN SENSITIVE_FILES : SENSITIVE_FILES[k].path = path}}

\* C28: a finding of checkAdminPaths is critical for a database tool
\* (phpMyAdmin, Adminer) and high for a debug, profiler, server-status,
\* server-info or PHP-info endpoint or an install script; for a path that is
\* also in the sensitive-file table it has the severity given there.
C28_AdminSeverity ==
    probe.pc = "done" /\ probe.detector = "admin" =>
        \A i \in DOMAIN ADMIN_PATHS : \A issue \in AdminFindings(i) :
            /\ ADMIN_PATHS[i].name \in DatabaseToolNames => issue.severity = "critical"
            /\ ADMIN_PATHS[i].name \in DebugOrInstallNames => issue.severity = "high"
            /\ \A severity \in FileSeverities(ADMIN_PATHS[i].path) :
                   issue.severity = severity

\* Where it holds and where it fails.
DatabaseToolFound ==
    /\ probe.pc = "done" /\ probe.detector = "admin"
    /\ \E i \in DOMAIN ADMIN_PATHS :
           /\ ADMIN_PATHS[i].name \in DatabaseToolNames
           /\ \E issue \in AdminFindings(i) : issue.severity = "critical"

InfoPhpFound ==
    /\ probe.pc = "done" /\ probe.detector = "admin"
    /\ \E i \in DOMAIN ADMIN_PATHS :
           /\ ADMIN_PATHS[i].path = <<"/","i","n","f","o",".","p","h","p">>
           /\ \E issue \in AdminFindings(i) : issue.severity = "medium"

-----------------------------------------------------------------------------
(* C25: application-shell rejection in checkAdminPaths                     *)

\* entry i of ADMIN_PATHS is answered with status 200 and the body of the
\* site's main page
ServesMainPage(site, i) ==
    /\ Answer(site, ADMIN_PATHS[i].path).kind = "response"
    /\ Answer(site, ADMIN_PATHS[i].path).status = 200
    /\ Answer(site, ADMIN_PATHS[i].path).read
    /\ Answer(site, ADMIN_PATHS[i].path).body = site.home

\* C25: an admin-path response whose body is the target's main page yields
\* no finding, whatever markers the body contains, whether the caller passed
\* the main page or passed none (mainPageContent is the target's main page
\* or empty).
C25_ShellRejected ==
    /\ probe.pc = "done" /\ probe.detector = "admin"
    /\ probe.mainPageContent \in {<<>>, probe.site.home}
    =>
        \A i \in DOMAIN ADMIN_PATHS :
            ServesMainPage(probe.site, i) => AdminFindings(i) = {}

\* Where it holds: the main page was passed, holds markers of an entry that
\* serves it, and the entry is discarded.
ShellDiscarded ==
    /\ probe.pc = "done" /\ probe.detector = "admin"
    /\ probe.mainPageContent = probe.site.home
    /\ \E i \in DOMAIN ADMIN_PATHS :
           /\ ServesMainPage(probe.site, i)
           /\ MarkersFound(ADMIN_PATHS[i].contentMarkers, ToLowerCase(probe.site.home))
           /\ AdminFindings(i) = {}

\* Where it fails: no main page was passed and the detector's own fetch of
\* the base URL gave none.
ShellReportedWithoutMain ==
    /\ probe.pc = "done" /\ probe.detector = "admin"
    /\ probe.mainPageContent = <<>> /\ probe.mainHash = <<>>
    /\ \E i \in DOMAIN ADMIN_PATHS :
           ServesMainPage(probe.site, i) /\ AdminFindings(i) # {}

-----------------------------------------------------------------------------
(* isSpaFallback on its own: the caller takes the signature of the main    *)
(* page (simpleHash and length), then classifies a body against it.        *)

\* a page head of SampleLimit characters that several pages share
Boilerplate == [i \in 1..SampleLimit |-> " "]

LongHomePage == Boilerplate \o <<"<","h","t","m","l",">","h","o","m","e","<","/","h","t","m","l",">">>

LongPmaPage == Boilerplate \o [i \in 1..400 |-> " "] \o <<"<","t","i","t","l","e",">","p","h","p","M","y","A","d","m","i","n","<","/","t","i","t","l","e",">">>

MarkerPage == <<"<","d","i","v"," ","n","g","-","a","p","p","=","\"","s","h","o","p","\"",">","<","/","d","i","v",">">>

SpaBodies ==
    {<<>>, HomePage, WpHomePage, SpaHomePage, SpaRoutePage, PmaPage, MarkerPage,
     LongHomePage, LongPmaPage}

SpaCall(mainContent, content) ==
    [fn |-> "isSpaFallback", pc |-> "call", mainContent |-> mainContent,
     content |-> content, mainHash |-> <<>>, mainLength |-> 0, result |-> FALSE]

\* mainHash = simpleHash(mainContent); mainLength = mainContent.length
SpaSigned(c) ==
    [c EXCEPT !.pc = "signed", !.mainHash = simpleHash(c.mainContent),
              !.mainLength = Len(c.mainContent)]

SpaClassified(c) ==
    [c EXCEPT !.pc = "done", !.result = isSpaFallback(c.mainHash, c.mainLength, c.content)]

SpaSign ==
    /\ fcall.pc = "call" /\ fcall.fn = "isSpaFallback"
    /\ fcall' = SpaSigned(fcall)
    /\ UNCHANGED <<dns, keys, probe, tko, scan, net>>

SpaClassify ==
    /\ fcall.pc = "signed" /\ fcall.fn = "isSpaFallback"
    /\ fcall' = SpaClassified(fcall)
    /\ UNCHANGED <<dns, keys, probe, tko, scan, net>>

InitSpa ==
    /\ fcall \in {SpaCall(mainContent, content) :
                     mainContent \in SpaBodies, content \in SpaBodies}
    /\ dns = Idle /\ keys = Idle /\ probe = Idle /\ tko = Idle /\ scan = Idle /\ net = Idle

NextSpa == SpaSign \/ SpaClassify

SpecSpa == InitSpa /\ [][NextSpa]_vars

-----------------------------------------------------------------------------
(* C24: application-shell classification                                   *)

\* the signature of a body: the hash of its first 5000 characters together
\* with its length
Signature(body) == <<simpleHash(body), Len(body)>>

\* the length is within 5% of the baseline length
WithinFivePercent(length, baseline) ==
    100 * (IF length > baseline THEN length - baseline ELSE baseline - length)
        < 5 * baseline

HasSpaMarker(body) ==
    \/ Includes(body, <<"_","_","N","E","X","T","_","D","A","T","A","_","_">>) \/ Includes(body, <<"_","_","N","U","X","T","_","_">>)
    \/ Includes(body, <<"d","a","t","a","-","r","e","a","c","t","r","o","o","t">>) \/ Includes(body, <<"n","g","-","a","p","p">>)

\* C24: a candidate is classified as an application-shell false positive if
\* and only if its signature (hash of the first 5000 characters, and length)
\* equals the baseline's, or its length is within 5% of the baseline length
\* and it contains one of the single-page-app markers.
C24_ShellClassification ==
    fcall.pc = "done" /\ fcall.fn = "isSpaFallback" =>
        (fcall.result <=>
            \/ Signature(fcall.content) = Signature(fcall.mainContent)
            \/ /\ WithinFivePercent(Len(fcall.content), Len(fcall.mainContent))
               /\ HasSpaMarker(fcall.content))

\* Where it fails: the same first 5000 characters, another length, no marker.
SameHashOtherLength ==
    /\ fcall.pc = "done" /\ fcall.fn = "isSpaFallback"
    /\ fcall.result
    /\ Len(fcall.content) # Len(fcall.mainContent)
    /\ ~HasSpaMarker(fcall.content)

\* Where it holds: classified by clause (a), by clause (b), and not classified
ClassifiedBySignature ==
    /\ fcall.pc = "done" /\ fcall.fn = "isSpaFallback" /\ fcall.result
    /\ fcall.content = fcall.mainContent /\ ~HasSpaMarker(fcall.content)

ClassifiedByMarker ==
    /\ fcall.pc = "done" /\ fcall.fn = "isSpaFallback" /\ fcall.result
    /\ fcall.content # fcall.mainContent /\ HasSpaMarker(fcall.content)

MarkerButOtherLength ==
    /\ fcall.pc = "done" /\ fcall.fn = "isSpaFallback" /\ ~fcall.result
    /\ HasSpaMarker(fcall.content)

-----------------------------------------------------------------------------
(* calculateScore (src/src/report/score.ts:34-126): the score and the grade *)
(* of a ScanResult.                                                        *)

Max(a, b) == IF a > b THEN a ELSE b

\* details of a CheckResult as calculateScore reads them; absent when the
\* CheckResult has no details
NoDetails == [given |-> FALSE]

HeaderDetails(hsts, csp) ==
    [given |-> TRUE, StrictTransportSecurity |-> hsts, ContentSecurityPolicy |-> csp]

DnsDetails(spf, dmarc) ==
    [given |-> TRUE, spf |-> [exists |-> spf], dmarc |-> [exists |-> dmarc]]

\* techDetails: absent, or the list of detected technologies
TechDetails(detected) == [given |-> TRUE, detected |-> detected]

ScoredCheck(name, passed, details) == [name |-> name, passed |-> passed, details |-> details]

\* result.checks.find(c => c.name === name)
FindCheck(checks, name) ==
    IF \E k \in DOMAIN checks : checks[k].name = name
    THEN checks[CHOOSE k \in DOMAIN checks :
                    /\ checks[k].name = name
                    /\ \A j \in 1..(k - 1) : checks[j].name # name]
    ELSE [name |-> name, passed |-> FALSE, details |-> NoDetails]

\* a header value is truthy when it is a non-empty string
Truthy(value) == value # "null" /\ value # ""

\* the bonuses pushed, in order
SslBonus(checks) ==
    IF FindCheck(checks, "SSL/TLS").passed THEN <<"Valid SSL certificate">> ELSE <<>>

HeaderBonuses(details) ==
    IF ~details.given THEN <<>>
    ELSE (IF Truthy(details.StrictTransportSecurity) THEN <<"HSTS enabled">> ELSE <<>>)
         \o (IF Truthy(details.ContentSecurityPolicy) THEN <<"CSP configured">> ELSE <<>>)

CdnBonus(techDetails) ==
    IF techDetails.given /\ \E k \in DOMAIN techDetails.detected :
                                techDetails.detected[k].name = "Cloudflare"
    THEN <<"Cloudflare protection">> ELSE <<>>

DnsBonus(details) ==
    IF details.given /\ details.spf.exists /\ details.dmarc.exists
    THEN <<"Email authentication configured">> ELSE <<>>

BonusesOf(result, techDetails) ==
    SslBonus(result.checks)
        \o HeaderBonuses(FindCheck(result.checks, "Security Headers").details)
        \o CdnBonus(techDetails)
        \o DnsBonus(FindCheck(result.checks, "Email Security (DNS)").details)

\* if (score >= 90) 'A' ... else 'F'
GradeOf(score) ==
    IF score >= 90 THEN "A" ELSE IF score >= 75 THEN "B"
    ELSE IF score >= 60 THEN "C" ELSE IF score >= 40 THEN "D" ELSE "F"

\* the deductions with every critical finding counted
DeductionsUncapped(summary) ==
    summary.critical * 30 + summary.high * 15 + summary.medium * 8 + summary.low * 3

\* criticalCount * 30 + highCount * 15 + mediumCount * 8 + lowCount * 3
Deductions(summary) ==
    Min(summary.critical, 2) * 30 + summary.high * 15 + summary.medium * 8
        + summary.low * 3

\* score = Math.max(0, Math.min(100, score))
Clamped(score) == Max(0, Min(100, score))

SecurityScore(score, summary, bonuses) ==
    [grade |-> GradeOf(score), score |-> score, maxScore |-> 100,
     breakdown |-> [critical |-> summary.critical, high |-> summary.high,
                    medium |-> summary.medium, low |-> summary.low],
     bonuses |-> bonuses]

calculateScore(result, techDetails) ==
    SecurityScore(Clamped(100 - Deductions(result.summary)
                              + 5 * Len(BonusesOf(result, techDetails))),
                  result.summary, BonusesOf(result, techDetails))

\* ---- the results scored ----
MaxCount == 3

ScoredSummaries ==
    [critical : 0..MaxCount, high : 0..MaxCount, medium : 0..MaxCount,
     low : 0..MaxCount, info : {0, 1}]

ScoredHeaderDetails ==
    {NoDetails, HeaderDetails("null", "null"), HeaderDetails("max-age=31536000", "null"),
     HeaderDetails("", "default-src 'self'"),
     HeaderDetails("max-age=31536000", "default-src 'self'")}

ScoredDnsDetails == {NoDetails, DnsDetails(TRUE, TRUE), DnsDetails(TRUE, FALSE)}

ScoredTechDetails ==
    {NoDetails, TechDetails(<<>>),
     TechDetails(<<[name |-> "nginx", category |-> "Web Server"],
                   [name |-> "Cloudflare", category |-> "CDN"]>>)}

ScoredResult(summary, sslPassed, headers, dnsDetails) ==
    [summary |-> summary,
     checks |-> <<ScoredCheck("Security Headers", ~headers.given, headers),
                  ScoredCheck("SSL/TLS", sslPassed, NoDetails),
                  ScoredCheck("Email Security (DNS)", dnsDetails.given, dnsDetails)>>]

ScoreCall(result, techDetails) ==
    [fn |-> "calculateScore", pc |-> "call", result |-> result,
     techDetails |-> techDetails, score |-> NoDetails]

ScoreReturn ==
    /\ fcall.pc = "call" /\ fcall.fn = "calculateScore"
    /\ fcall' = [fcall EXCEPT !.pc = "done",
                              !.score = calculateScore(fcall.result, fcall.techDetails)]
    /\ UNCHANGED <<dns, keys, probe, tko, scan, net>>

InitScore ==
    /\ fcall \in {ScoreCall(ScoredResult(summary, sslPassed, headers, dnsDetails), techDetails) :
                     summary \in ScoredSummaries, sslPassed \in BOOLEAN,
                     headers \in ScoredHeaderDetails, dnsDetails \in ScoredDnsDetails,
                     techDetails \in ScoredTechDetails}
    /\ dns = Idle /\ keys = Idle /\ probe = Idle /\ tko = Idle /\ scan = Idle /\ net = Idle

NextScore == ScoreReturn

SpecScore == InitScore /\ [][NextScore]_vars

-----------------------------------------------------------------------------
(* C23: score and grade                                                    *)

\* the score of the claim, before clamping
StatedScore(summary, bonuses) ==
    100 - 30 * (IF summary.critical < 2 THEN summary.critical ELSE 2)
        - 15 * summary.high - 8 * summary.medium - 3 * summary.low + 5 * bonuses

StatedGrade(score) ==
    IF score \in 90..100 THEN "A" ELSE IF score \in 75..89 THEN "B"
    ELSE IF score \in 60..74 THEN "C" ELSE IF score \in 40..59 THEN "D" ELSE "F"

ScoreClampedAtZero ==
    /\ fcall.pc = "done" /\ fcall.fn = "calculateScore"
    /\ fcall.score.score = 0 /\ fcall.score.grade = "F"
    /\ StatedScore(fcall.result.summary, Len(fcall.score.bonuses)) < 0

ScoreClampedAtHundred ==
    /\ fcall.pc = "done" /\ fcall.fn = "calculateScore"
    /\ fcall.score.score = 100 /\ Len(fcall.score.bonuses) = 5

-----------------------------------------------------------------------------
(* main (src/src/index.ts:339-441): the command line, the scan, the report *)
(* and the exit code.                                                      *)

\* process.argv.slice(2), by what main makes of it
MainArgs ==
    {[kind |-> kind, outreach |-> FALSE, output |-> FALSE] :
        kind \in {"help", "stats", "no url"}}
    \cup {[kind |-> "url", outreach |-> outreach, output |-> output] :
             outreach \in BOOLEAN, output \in BOOLEAN}

MainCall(args) ==
    [fn |-> "main", pc |-> "start", args |-> args, summary |-> NoDetails,
     threw |-> "nothing", exitCode |-> -1]

\* process.exit(code)
Exited(c, code) == [c EXCEPT !.pc = "exited", !.exitCode = code]

\* catch (error) { ...; process.exit(3) }
Caught(c, what) == Exited([c EXCEPT !.threw = what], 3)

\* a variant that looks at the high findings first
ExitCodeHighFirst(summary) ==
    IF summary.high > 0 THEN 1 ELSE IF summary.critical > 0 THEN 2 ELSE 0

\* Exit code based on findings
ExitCodeOf(summary) ==
    IF summary.critical > 0 THEN 2 ELSE IF summary.high > 0 THEN 1 ELSE 0

\* the arguments are parsed: help and stats exit with 0, a missing URL with
\* 1, otherwise scanUrl is called and awaited
MainParse ==
    /\ fcall.pc = "start" /\ fcall.fn = "main"
    /\ fcall' = IF fcall.args.kind \in {"help", "stats"} THEN Exited(fcall, 0)
                ELSE IF fcall.args.kind = "no url" THEN Exited(fcall, 1)
                ELSE [fcall EXCEPT !.pc = "scan"]
    /\ UNCHANGED <<dns, keys, probe, tko, scan, net>>

\* await scanUrl(...) settles: rejected, or fulfilled with a ScanResult
MainScanSettle ==
    /\ fcall.pc = "scan" /\ fcall.fn = "main"
    /\ \/ fcall' = Caught(fcall, "scan")
       \/ \E summary \in ScoredSummaries :
              fcall' = [fcall EXCEPT !.pc = "report", !.summary = summary]
    /\ UNCHANGED <<dns, keys, probe, tko, scan, net>>

\* calculateScore, then handleOutreachMode or the report (written to the
\* output file or printed): it throws, or main exits on the summary
MainReport ==
    /\ fcall.pc = "report" /\ fcall.fn = "main"
    /\ \/ fcall' = Caught(fcall, "report")
       \/ fcall' = Exited(fcall, ExitCodeOf(fcall.summary))
    /\ UNCHANGED <<dns, keys, probe, tko, scan, net>>

InitMain ==
    /\ fcall \in {MainCall(args) : args \in MainArgs}
    /\ dns = Idle /\ keys = Idle /\ probe = Idle /\ tko = Idle /\ scan = Idle /\ net = Idle

NextMain == MainParse \/ MainScanSettle \/ MainReport

SpecMain == InitMain /\ [][NextMain]_vars

-----------------------------------------------------------------------------
(* C22: exit code                                                          *)

MainExited == fcall.pc = "exited" /\ fcall.fn = "main"

\* the scan completed and the report was produced
ScanCompleted == MainExited /\ fcall.summary # NoDetails /\ fcall.threw = "nothing"

\* C22: after a completed scan the exit code is 2 if summary.critical > 0,
\* otherwise 1 if summary.high > 0, otherwise 0, whatever the numbers of
\* medium, low and info findings; for a given URL the exit code is 3 exactly
\* when the scan or the report generation threw.
C22_ExitCode ==
    /\ ScanCompleted =>
           /\ fcall.summary.critical > 0 => fcall.exitCode = 2
           /\ fcall.summary.critical = 0 /\ fcall.summary.high > 0 => fcall.exitCode = 1
           /\ fcall.summary.critical = 0 /\ fcall.summary.high = 0 => fcall.exitCode = 0
    /\ MainExited => (fcall.exitCode = 3 <=> fcall.threw # "nothing")

\* witness of C22: a completed scan with critical and high findings exits
\* with 2
C22_Witness ==
    /\ ScanCompleted
    /\ fcall.summary.critical > 0 /\ fcall.summary.high > 0
    /\ fcall.exitCode = 2

ExitedOnHigh ==
    ScanCompleted /\ fcall.summary.high > 0 /\ fcall.summary.medium > 0 /\ fcall.exitCode = 1

ExitedClean ==
    /\ ScanCompleted /\ fcall.exitCode = 0
    /\ fcall.summary.medium > 0 /\ fcall.summary.low > 0 /\ fcall.summary.info > 0

ExitedOnThrownReport ==
    MainExited /\ fcall.threw = "report" /\ fcall.summary.critical > 0 /\ fcall.exitCode = 3

ExitedOnRejectedScan == MainExited /\ fcall.threw = "scan" /\ fcall.exitCode = 3

-----------------------------------------------------------------------------
(* C21: transport failures and findings                                    *)

\* the findings of checkDnsSecurity about one record kind
FindingsAbout(d, ids) == {i \in 1..Len(d.issues) : d.issues[i].id \in ids}

\* C21: a transport failure of a network call of a detector other than the
\* SSL/TLS detector adds no finding to the detector's CheckResult: when
\* checkDnsSecurity has returned, a TXT lookup that failed has left no
\* finding about its record.
C21_TransportFailureNoFinding ==
    dns.pc = "done" =>
        /\ dns.lookup.spf = "error" =>
               FindingsAbout(dns, {"dns-no-spf", "dns-spf-permissive"}) = {}
        /\ dns.lookup.dmarc = "error" =>
               FindingsAbout(dns, {"dns-no-dmarc", "dns-dmarc-none"}) = {}

\* both TXT lookups failed and the result holds two findings
BothLookupsFailedTwoFindings ==
    /\ dns.pc = "done"
    /\ dns.lookup.spf = "error" /\ dns.lookup.dmarc = "error"
    /\ dns.issues = <<NoSpfIssue, NoDmarcIssue>>

\* the SPF lookup failed, the DMARC record is in order: one finding
SpfLookupFailedOneFinding ==
    /\ dns.pc = "done"
    /\ dns.lookup.spf = "error" /\ dns.lookup.dmarc = "present"
    /\ dns.issues = <<NoSpfIssue>>

-----------------------------------------------------------------------------
(* checkHttpFingerprint (src/src/checks/headers.ts:481-524) on its own:    *)
(* one AbortController and one 5 s timer for the loop over the protocols.  *)

\* probes: what became of the fetch of each protocol: "none" (fetch was not
\* called), "sent", "responded" (the fetch resolved, the body is being read),
\* "answered" (the body was read), "failed" (the fetch rejected), "unreadable"
\* (the body read rejected), "timed out" (aborted in flight by the timer) or
\* "aborted" (fetch was called with the signal already aborted and rejected
\* without a request)
FingerprintCall(service) ==
    [fn |-> "checkHttpFingerprint", pc |-> "https", service |-> service,
     armed |-> TRUE, aborted |-> FALSE,
     probes |-> [https |-> "sent", http |-> "none"],
     body |-> <<>>, vulnerable |-> FALSE, evidence |-> <<>>]

ProtocolOf(c) == IF c.pc \in {"https", "https body"} THEN "https" ELSE "http"

\* the fetch resolved: await response.text()
FetchResolved(c) ==
    [c EXCEPT !.pc = IF c.pc = "https" THEN "https body" ELSE "http body",
              !.probes[ProtocolOf(c)] = "responded"]

\* the body was read: clearTimeout, then the loop over the fingerprints
Fingerprinted(c, body) ==
    [c EXCEPT !.pc = "returned", !.armed = FALSE, !.body = body,
              !.probes[ProtocolOf(c)] = "answered",
              !.evidence = FirstFingerprint(VULNERABLE_SERVICES[c.service].fingerprints, body),
              !.vulnerable =
                  FirstFingerprint(VULNERABLE_SERVICES[c.service].fingerprints, body) # <<>>]

\* after the loop: clearTimeout(timeoutId); return { vulnerable: false }
NoProtocolLeft(c) == [c EXCEPT !.pc = "returned", !.armed = FALSE]

\* a variant of ProbeFailed in which every protocol gets a signal of its own
ProbeFailedFreshSignal(c, why) ==
    IF ProtocolOf(c) = "https"
    THEN [c EXCEPT !.pc = "http", !.probes.https = why, !.probes.http = "sent"]
    ELSE NoProtocolLeft([c EXCEPT !.probes.http = why])

\* catch { continue }: the next protocol is fetched with the same signal; a
\* fetch with an aborted signal rejects at once, and the loop ends
ProbeFailed(c, why) ==
    IF ProtocolOf(c) = "https"
    THEN IF c.aborted
         THEN NoProtocolLeft([c EXCEPT !.probes.https = why, !.probes.http = "aborted"])
         ELSE [c EXCEPT !.pc = "http", !.probes.https = why, !.probes.http = "sent"]
    ELSE NoProtocolLeft([c EXCEPT !.probes.http = why])

\* await fetch(`${protocol}://${subdomain}`, { signal }) settles
FingerprintFetchSettle ==
    /\ fcall.pc \in {"https", "http"} /\ fcall.fn = "checkHttpFingerprint"
    /\ \/ fcall' = FetchResolved(fcall)
       \/ fcall' = ProbeFailed(fcall, "failed")
    /\ UNCHANGED <<dns, keys, probe, tko, scan, net>>

\* await response.text() settles
FingerprintBodySettle ==
    /\ fcall.pc \in {"https body", "http body"} /\ fcall.fn = "checkHttpFingerprint"
    /\ \/ \E body \in TakeoverBodies : fcall' = Fingerprinted(fcall, body)
       \/ fcall' = ProbeFailed(fcall, "unreadable")
    /\ UNCHANGED <<dns, keys, probe, tko, scan, net>>

\* setTimeout(() => controller.abort(), 5000) fires: the awaited fetch or
\* body read rejects
FingerprintTimeout ==
    /\ fcall.pc \in {"https", "https body", "http", "http body"}
    /\ fcall.fn = "checkHttpFingerprint"
    /\ fcall.armed
    /\ fcall' = ProbeFailed([fcall EXCEPT !.armed = FALSE, !.aborted = TRUE], "timed out")
    /\ UNCHANGED <<dns, keys, probe, tko, scan, net>>

InitFingerprint ==
    /\ fcall \in {FingerprintCall(service) : service \in 1..Len(VULNERABLE_SERVICES)}
    /\ dns = Idle /\ keys = Idle /\ probe = Idle /\ tko = Idle /\ scan = Idle /\ net = Idle

NextFingerprint == FingerprintFetchSettle \/ FingerprintBodySettle \/ FingerprintTimeout

SpecFingerprint == InitFingerprint /\ [][NextFingerprint]_vars

-----------------------------------------------------------------------------
(* C26: HTTPS-then-HTTP fallback in checkHttpFingerprint                   *)

FingerprintReturned == fcall.pc = "returned" /\ fcall.fn = "checkHttpFingerprint"

\* a request of the protocol really went out
WentOut(outcome) == outcome \notin {"none", "aborted"}

\* C26: for a candidate whose CNAME matched a rule, if the HTTPS probe failed
\* for any reason, by the 5-second timeout included, an HTTP probe was really
\* issued, and the body of an answered HTTP probe was searched for the rule's
\* fingerprints; if the HTTPS probe returned its response, no HTTP probe was
\* issued.
C26_HttpFallback ==
    FingerprintReturned =>
        /\ fcall.probes.https \in {"failed", "unreadable", "timed out"} =>
               WentOut(fcall.probes.http)
        /\ fcall.probes.http = "answered" =>
               (fcall.vulnerable <=>
                    \E f \in 1..Len(VULNERABLE_SERVICES[fcall.service].fingerprints) :
                        Includes(fcall.body, VULNERABLE_SERVICES[fcall.service].fingerprints[f]))
        /\ fcall.probes.https = "answered" => fcall.probes.http = "none"

\* the HTTPS probe ran into the timer and the HTTP fetch was refused at once
HttpsTimedOutHttpAborted ==
    /\ FingerprintReturned
    /\ fcall.probes = [https |-> "timed out", http |-> "aborted"]
    /\ ~fcall.vulnerable

\* the HTTPS probe was refused and the HTTP probe found a fingerprint
HttpsFailedHttpFound ==
    /\ FingerprintReturned
    /\ fcall.probes = [https |-> "failed", http |-> "answered"]
    /\ fcall.vulnerable

\* the HTTPS probe answered and no HTTP probe followed
HttpsAnsweredNoHttp ==
    FingerprintReturned /\ fcall.probes = [https |-> "answered", http |-> "none"]

-----------------------------------------------------------------------------
(* C27: script selection in checkApiKeys                                   *)

\* URL.protocol without the colon
SchemeOf(url) == ToLowerCase(Substring(url, 0, SchemeEnd(url)))

\* URL.port, with the default port of the scheme written out
PortOf(url) ==
    IF IndexOf(AuthorityOf(url, SchemeEnd(url) + 3), <<":">>, 0) # NoMatch
    THEN Substring(AuthorityOf(url, SchemeEnd(url) + 3),
                   IndexOf(AuthorityOf(url, SchemeEnd(url) + 3), <<":">>, 0) + 1,
                   Len(AuthorityOf(url, SchemeEnd(url) + 3)))
    ELSE IF SchemeOf(url) = <<"h","t","t","p","s">> THEN <<"4","4","3">> ELSE <<"8","0">>

\* scheme, host and port
SameOrigin(a, b) ==
    /\ SchemeOf(a) = SchemeOf(b)
    /\ Hostname(a) = Hostname(b)
    /\ PortOf(a) = PortOf(b)

\* the scripts checkApiKeys has fetched or is fetching
FetchedScripts ==
    IF keys.pc = "script" THEN SubSeq(keys.jsUrls, 1, keys.next)
    ELSE IF keys.pc = "done" THEN keys.jsUrls
    ELSE <<>>

\* C27: checkApiKeys fetches at most 5 external scripts of a root page, one
\* at a time, and every script it fetches has the scheme, the host and the
\* port of the scanned URL.
C27_ScriptSelection ==
    keys.pc # "idle" =>
        /\ Len(FetchedScripts) <= 5
        /\ keys.pc = "script" => Len(keys.served) = keys.next
        /\ \A i \in 1..Len(FetchedScripts) : SameOrigin(FetchedScripts[i], TargetUrl)

\* a script of the target's host is fetched over http
FetchedOverHttp ==
    /\ keys.pc # "idle"
    /\ \E i \in 1..Len(FetchedScripts) :
           /\ Hostname(FetchedScripts[i]) = Hostname(TargetUrl)
           /\ SchemeOf(FetchedScripts[i]) = <<"h","t","t","p">>

\* a script of the target's host is fetched from port 8443
FetchedFromOtherPort ==
    /\ keys.pc # "idle"
    /\ \E i \in 1..Len(FetchedScripts) :
           /\ Hostname(FetchedScripts[i]) = Hostname(TargetUrl)
           /\ PortOf(FetchedScripts[i]) = <<"8","4","4","3">>

\* six scripts on the page, five fetched
FiveOfSixFetched ==
    /\ keys.pc = "done"
    /\ Len(keys.jsUrls) = 5
    /\ Len(extractJsUrls(PageSixScripts, TargetUrl)) = 6
    /\ Len(keys.served) = 6
    /\ keys.served[1].kind = "ok" /\ keys.served[1].body = PageSixScripts

====
